---- MODULE Spec2Model ----
(***************************************************************************)
(* Verification model of jessdy/h2p.                                       *)
(*                                                                         *)
(*  - POST /generate/video-9-16 (routes/video.js): the duration-budgeted   *)
(*    timeline compositor.  Times are integers in milliseconds.  A media   *)
(*    file is the sequence of the segments it plays; ffprobe reports the   *)
(*    summed duration, ffmpeg concat appends, ffmpeg setDuration cuts.     *)
(*  - calculateSubtitleTimings (routes/audio.js): the subtitle timing      *)
(*    synthesizer.  Times are JavaScript numbers (IEEE-754 doubles) in     *)
(*    seconds.                                                             *)
(*  - splitTextByPunctuation, formatSrtTime, generateSrtContent and the    *)
(*    handler of POST /merge/audio (routes/audio.js).  A string is the     *)
(*    sequence of its characters.                                          *)
(*  - LoginValidator (utils/loginValidator.js) over a cookie directory.    *)
(***************************************************************************)
EXTENDS Integers, Sequences, FiniteSets, TLC

\* ------------------------------------------------------------------------
\* Bounds of the model
\* ------------------------------------------------------------------------
\* The most URLs one request body holds, over its three arrays together.
MaxUrls == 4

\* The most URLs one request body holds when two requests are served.
MaxConcurrentUrls == 2

\* ------------------------------------------------------------------------
\* Program constants of /generate/video-9-16 (milliseconds, pixels)
\* ------------------------------------------------------------------------
VIDEO_WIDTH == 1080

VIDEO_HEIGHT == 1920

MinImageSize == 500

ScrollPixelsPerSecond == 100

MinScrollDuration == 3000

StaticImageDuration == 5000

MinImageVideoDuration == 1000

\* ------------------------------------------------------------------------
\* Request bodies and the outside world behind every URL
\* ------------------------------------------------------------------------
\* A video URL: blank URLs are dropped by the URL filter, fetch is the result
\* of downloadVideo, probe the result of ffprobe and duration what it reports
\* (0 when the metadata has no format.duration).
VideoSource(url, fetch, probe, duration) ==
    [url |-> url, fetch |-> fetch, probe |-> probe, duration |-> duration]

\* An image URL, with the pixel dimensions ffprobe reports.
ImageSource(url, fetch, probe, width, height) ==
    [url |-> url, fetch |-> fetch, probe |-> probe, width |-> width, height |-> height]

VideoSources ==
    { VideoSource(FALSE, FALSE, FALSE, 0),
      VideoSource(TRUE, FALSE, FALSE, 0),
      VideoSource(TRUE, TRUE, FALSE, 0),
      VideoSource(TRUE, TRUE, TRUE, 0),
      VideoSource(TRUE, TRUE, TRUE, 3000),
      VideoSource(TRUE, TRUE, TRUE, 4000),
      VideoSource(TRUE, TRUE, TRUE, 12000) }

ImageSources ==
    { ImageSource(FALSE, FALSE, FALSE, 0, 0),
      ImageSource(TRUE, FALSE, FALSE, 0, 0),
      ImageSource(TRUE, TRUE, FALSE, 0, 0),
      ImageSource(TRUE, TRUE, TRUE, 400, 2000),
      ImageSource(TRUE, TRUE, TRUE, 2000, 600),
      ImageSource(TRUE, TRUE, TRUE, 1080, 1080),
      ImageSource(TRUE, TRUE, TRUE, 1000, 2000),
      ImageSource(TRUE, TRUE, TRUE, 1080, 2520) }

AppendVideoSources ==
    { VideoSource(FALSE, FALSE, FALSE, 0),
      VideoSource(TRUE, FALSE, FALSE, 0),
      VideoSource(TRUE, TRUE, FALSE, 0),
      VideoSource(TRUE, TRUE, TRUE, 0),
      VideoSource(TRUE, TRUE, TRUE, 2000),
      VideoSource(TRUE, TRUE, TRUE, 12000) }

TargetDurations == {0, 7500, 10000}

\* The array lengths of a request body: <<videoUrls, imageUrls, appendVideoUrls>>.
BodyShapes ==
    { shape \in (0..MaxUrls) \X (0..MaxUrls) \X (0..MaxUrls) :
        shape[1] + shape[2] + shape[3] <= MaxUrls }

\* The request bodies of the runs with two requests.
ConcurrentBodies ==
    UNION { [ targetDuration  : {7500},
              videoUrls       : [1..shape[1] -> { VideoSource(TRUE, FALSE, FALSE, 0),
                                                  VideoSource(TRUE, TRUE, TRUE, 4000) }],
              imageUrls       : [1..shape[2] -> { ImageSource(TRUE, TRUE, TRUE, 1000, 2000) }],
              appendVideoUrls : [1..shape[3] -> { VideoSource(TRUE, TRUE, TRUE, 2000) }] ] :
            shape \in { sh \in (0..MaxConcurrentUrls) \X (0..MaxConcurrentUrls)
                                   \X (0..MaxConcurrentUrls) :
                           sh[1] + sh[2] + sh[3] <= MaxConcurrentUrls } }

Bodies ==
    UNION { [ targetDuration  : TargetDurations,
              videoUrls       : [1..shape[1] -> VideoSources],
              imageUrls       : [1..shape[2] -> ImageSources],
              appendVideoUrls : [1..shape[3] -> AppendVideoSources] ] :
            shape \in BodyShapes }

\* ------------------------------------------------------------------------
\* State of one /generate/video-9-16 request
\* ------------------------------------------------------------------------
VARIABLES
    body,                        \* req.body
    pc,                          \* position of the handler
    i,                           \* loop index of the running for-loop (1-based)
    videoUrls,                   \* positions in body.videoUrls kept by the URL filter
    imageUrls,
    appendVideoUrls,
    downloadedVideoFiles,
    processedVideos,
    totalVideoDuration,
    processedVideoFiles,         \* the concatenation list: a sequence of files
    remainingDuration,
    downloadedImageFiles,
    validImages,
    imageVideoFiles,
    accumulatedDuration,
    remainingAfterImages,
    downloadedAppendVideoFiles,
    appendProcessedVideos,
    appendAccumulatedDuration,
    outputFile,                  \* the file at outputFilePath: the timeline
    actualDuration,
    response

reqVars    == <<body, videoUrls, imageUrls, appendVideoUrls>>

clipVars   == <<downloadedVideoFiles, processedVideos, totalVideoDuration>>

imageVars  == <<remainingDuration, downloadedImageFiles, validImages, imageVideoFiles,
                accumulatedDuration>>

appendVars == <<remainingAfterImages, downloadedAppendVideoFiles, appendProcessedVideos,
                appendAccumulatedDuration>>

outVars    == <<outputFile, actualDuration, response>>

allocVars  == <<reqVars, pc, i, clipVars, processedVideoFiles, imageVars, appendVars, outVars>>

\* ------------------------------------------------------------------------
\* State of one calculateSubtitleTimings call
\* ------------------------------------------------------------------------
VARIABLES
    segments,                    \* the text fragments, each a sequence of characters
    totalDuration,               \* seconds
    startTime,                   \* seconds
    subPc,                       \* position in calculateSubtitleTimings
    subI,                        \* loop index (1-based)
    idealDurations,
    scaleFactor,
    subtitles,
    currentTime,
    remainingTime

subVars == <<segments, totalDuration, startTime, subPc, subI, idealDurations,
             scaleFactor, subtitles, currentTime, remainingTime>>

\* ------------------------------------------------------------------------
\* Two requests to /generate/video-9-16 served by one Node.js process
\* ------------------------------------------------------------------------
VARIABLES
    phase,                       \* 0: one request only; 1, 2: A then B alone; 3: A and B together
    call,                        \* the request whose handler is running: "A" or "B"
    other,                       \* the local variables of the suspended handler
    solo,                        \* what each request answered when it ran alone
    overlapped                   \* both handlers were between their first and last step at once

callVars == <<phase, call, other, solo, overlapped>>

\* ------------------------------------------------------------------------
\* State of one subtitle synthesis: splitTextByPunctuation, then
\* calculateSubtitleTimings on its result
\* ------------------------------------------------------------------------
VARIABLES
    text                         \* the narration text, a sequence of characters

synthVars == <<text>>

\* LoginValidator: the files of the savePath directory, the clock of their
\* modification times, the validator of the last call with what it loaded, the
\* result it returned, and what saveCookies last wrote for each platform.
VARIABLES cookieDir, clock, validator, loginResult, savedCookies

loginVars == <<cookieDir, clock, validator, loginResult, savedCookies>>

\* POST /merge/audio: the request body with what ffprobe reports for each
\* downloaded file, the position in the handler, the delay the ffmpeg filter
\* puts before the narration, and the locals of the SRT generation.
VARIABLES
    mergeBody,
    mergePc,
    delaySeconds,                \* DELAY_SECONDS of the branch taken
    audioIndex,                  \* the downloaded file whose block is next (1: intro)
    srtTime,                     \* currentTime of the handler
    blocks,                      \* introSubtitles, then audioSubtitles of each file
    srtSubtitles,                \* subtitles of the handler
    srtContent,
    mergeResponse

mergeVars == <<mergeBody, mergePc, delaySeconds, audioIndex, srtTime, blocks,
               srtSubtitles, srtContent, mergeResponse>>

\* What the actions of one component leave alone.
notAllocVars == <<subVars, callVars, synthVars, loginVars, mergeVars>>

notSubVars == <<allocVars, callVars, synthVars, loginVars, mergeVars>>

\* ------------------------------------------------------------------------
\* Media files, the prober and the media processor
\* ------------------------------------------------------------------------
Segment(pool, src, duration) == [pool |-> pool, src |-> src, duration |-> duration]

RECURSIVE SumDurations(_)
SumDurations(file) ==
    IF file = <<>> THEN 0 ELSE Head(file).duration + SumDurations(Tail(file))

\* getVideoDuration: ffprobe's format.duration of a file (0 when absent).
getVideoDuration(file) == SumDurations(file)

\* Mutant of setDuration: cuts at the head, keeping the last d milliseconds.
RECURSIVE setDuration_Tail(_, _)
setDuration_Tail(file, d) ==
    IF file = <<>> \/ d <= 0 THEN <<>>
    ELSE LET last == file[Len(file)]
             init == SubSeq(file, 1, Len(file) - 1)
         IN  IF last.duration >= d
             THEN << [last EXCEPT !.duration = d] >>
             ELSE setDuration_Tail(init, d - last.duration) \o << last >>

\* ffmpeg(file).setDuration(d): the first d milliseconds of the file.
RECURSIVE setDuration(_, _)
setDuration(file, d) ==
    IF file = <<>> \/ d <= 0 THEN <<>>
    ELSE IF Head(file).duration >= d
         THEN << [Head(file) EXCEPT !.duration = d] >>
         ELSE << Head(file) >> \o setDuration(Tail(file), d - Head(file).duration)

\* Mutant of concat: the list is read back to front.
RECURSIVE concat_Reversed(_)
concat_Reversed(files) ==
    IF files = <<>> THEN <<>> ELSE concat_Reversed(Tail(files)) \o Head(files)

\* ffmpeg concat demuxer over a list of files.
RECURSIVE concat(_)
concat(files) ==
    IF files = <<>> THEN <<>> ELSE Head(files) \o concat(Tail(files))

RECURSIVE SumFileDurations(_)
SumFileDurations(files) ==
    IF files = <<>> THEN 0
    ELSE getVideoDuration(Head(files)) + SumFileDurations(Tail(files))

\* urls.map(normalizeUrl).filter(url => url): the positions of the non-blank URLs.
RECURSIVE FilterUrlsFrom(_, _)
FilterUrlsFrom(urls, k) ==
    IF k > Len(urls) THEN <<>>
    ELSE (IF urls[k].url THEN <<k>> ELSE <<>>) \o FilterUrlsFrom(urls, k + 1)

FilterUrls(urls) == FilterUrlsFrom(urls, 1)

\* Math.round(image.height * (VIDEO_WIDTH / image.width))
ScaledHeight(image) ==
    (2 * image.height * VIDEO_WIDTH + image.width) \div (2 * image.width)

\* Mutant of ScrollDuration: the floor of 3 seconds is left out.
ScrollDuration_NoFloor(scrollDistance) ==
    (scrollDistance * 1000) \div ScrollPixelsPerSecond

\* Math.max(3, scrollDistance / 100) seconds, in milliseconds
ScrollDuration(scrollDistance) ==
    LET d == (scrollDistance * 1000) \div ScrollPixelsPerSecond
    IN  IF d > MinScrollDuration THEN d ELSE MinScrollDuration

\* The duration of an image video before it is clamped to the remaining time.
ImageCandidateDuration(image) ==
    IF ScaledHeight(image) > VIDEO_HEIGHT
    THEN ScrollDuration(ScaledHeight(image) - VIDEO_HEIGHT)
    ELSE StaticImageDuration

\* Mutant of ClampImageDuration: the image keeps its candidate duration.
ClampImageDuration_Never(d, accumulated, remaining) == d

\* Mutant of ClampImageDuration: Math.min in place of Math.max.
ClampImageDuration_Min(d, accumulated, remaining) ==
    IF accumulated + d > remaining
    THEN (IF remaining - accumulated < MinImageVideoDuration
          THEN remaining - accumulated ELSE MinImageVideoDuration)
    ELSE d

\* Mutant of ClampImageDuration: the clamp is applied without its test.
ClampImageDuration_Always(d, accumulated, remaining) ==
    IF remaining - accumulated > MinImageVideoDuration
    THEN remaining - accumulated ELSE MinImageVideoDuration

\* if (accumulated + d > remaining) d = Math.max(1, remaining - accumulated)
ClampImageDuration(d, accumulated, remaining) ==
    IF accumulated + d > remaining
    THEN (IF remaining - accumulated > MinImageVideoDuration
          THEN remaining - accumulated ELSE MinImageVideoDuration)
    ELSE d

\* The dimension filter of the image pool.
ImageValid(dimensions) ==
    dimensions.width >= MinImageSize /\ dimensions.height >= MinImageSize

\* The cut of the concatenated clips.
TrimConcatenated(concatenated, target) ==
    IF getVideoDuration(concatenated) > target
    THEN setDuration(concatenated, target)
    ELSE concatenated

\* The cut of the last append video.
TrimLastAppend(videos, accumulated, remaining) ==
    IF Len(videos) > 0 /\ accumulated > remaining
    THEN LET lastVideo         == videos[Len(videos)]
             lastVideoDuration == getVideoDuration(lastVideo.path)
             excessDuration    == accumulated - remaining
             trimmedDuration   == lastVideoDuration - excessDuration
         IN  IF trimmedDuration > 0
             THEN [videos EXCEPT ![Len(videos)] =
                      [path |-> setDuration(lastVideo.path, trimmedDuration),
                       duration |-> trimmedDuration]]
             ELSE SubSeq(videos, 1, Len(videos) - 1)
    ELSE videos

\* Mutant of TrimFinal: the final video is never cut.
TrimFinal_Never(final, target) == final

\* The cut of the final video.
TrimFinal(final, target) ==
    IF getVideoDuration(final) > target THEN setDuration(final, target) ELSE final

Paths(videos) == [k \in 1..Len(videos) |-> videos[k].path]

\* parseFloat(x.toFixed(2)): rounded to hundredths of a second
toFixed2(ms) == ((ms + 5) \div 10) * 10

NoResponse == [status |-> 0, error |-> "", duration |-> 0]

ErrorResponse(status, error) == [status |-> status, error |-> error, duration |-> 0]

SuccessResponse(duration) == [status |-> 200, error |-> "", duration |-> toFixed2(duration)]

\* ------------------------------------------------------------------------
\* The handler router.post('/generate/video-9-16')
\* ------------------------------------------------------------------------
AllocInit ==
    /\ body \in Bodies
    /\ pc = "validate"
    /\ i = 1
    /\ videoUrls = <<>>
    /\ imageUrls = <<>>
    /\ appendVideoUrls = <<>>
    /\ downloadedVideoFiles = <<>>
    /\ processedVideos = <<>>
    /\ totalVideoDuration = 0
    /\ processedVideoFiles = <<>>
    /\ remainingDuration = 0
    /\ downloadedImageFiles = <<>>
    /\ validImages = <<>>
    /\ imageVideoFiles = <<>>
    /\ accumulatedDuration = 0
    /\ remainingAfterImages = 0
    /\ downloadedAppendVideoFiles = <<>>
    /\ appendProcessedVideos = <<>>
    /\ appendAccumulatedDuration = 0
    /\ outputFile = <<>>
    /\ actualDuration = 0
    /\ response = NoResponse

\* res.status(s).json({error}) and return
Reply(r) ==
    /\ response' = r
    /\ pc' = "done"

\* The catch block: any exception thrown inside the try answers 500.
Throw == Reply(ErrorResponse(500, "generation_failed"))

\* Parameter validation and URL normalisation.
Validate ==
    /\ pc = "validate"
    /\ UNCHANGED notAllocVars
    /\ IF body.targetDuration <= 0
          \/ (Len(body.imageUrls) = 0 /\ Len(body.videoUrls) = 0
              /\ Len(body.appendVideoUrls) = 0)
       THEN /\ Reply(ErrorResponse(400, "invalid_request"))
            /\ UNCHANGED <<videoUrls, imageUrls, appendVideoUrls>>
       ELSE /\ imageUrls' = FilterUrls(body.imageUrls)
            /\ videoUrls' = FilterUrls(body.videoUrls)
            /\ appendVideoUrls' = FilterUrls(body.appendVideoUrls)
            /\ pc' = IF Len(videoUrls') > 0 THEN "downloadVideos" ELSE "step2"
            /\ UNCHANGED response
    /\ UNCHANGED <<body, i, clipVars, processedVideoFiles, imageVars, appendVars,
                   outputFile, actualDuration>>

\* Step 1, first loop: download video i; a failed download throws.
DownloadVideo ==
    /\ pc = "downloadVideos"
    /\ UNCHANGED notAllocVars
    /\ LET src == videoUrls[i] IN
       IF ~body.videoUrls[src].fetch
       THEN /\ Throw
            /\ UNCHANGED <<i, downloadedVideoFiles>>
       ELSE /\ downloadedVideoFiles' = Append(downloadedVideoFiles, src)
            /\ IF i < Len(videoUrls)
               THEN i' = i + 1 /\ pc' = pc
               ELSE i' = 1 /\ pc' = "processVideos"
            /\ UNCHANGED response
    /\ UNCHANGED <<reqVars, processedVideos, totalVideoDuration, processedVideoFiles,
                   imageVars, appendVars, outputFile, actualDuration>>

\* Step 1, second loop: probe and convert video i, stop once the target is reached.
ProcessVideo ==
    /\ pc = "processVideos"
    /\ UNCHANGED notAllocVars
    /\ LET src == downloadedVideoFiles[i] IN
       IF ~body.videoUrls[src].probe
       THEN /\ Throw
            /\ UNCHANGED <<i, processedVideos, totalVideoDuration>>
       ELSE LET duration == body.videoUrls[src].duration IN
            /\ processedVideos' = Append(processedVideos,
                   [path |-> << Segment("clip", src, duration) >>, duration |-> duration])
            /\ totalVideoDuration' = totalVideoDuration + duration
            /\ IF totalVideoDuration' >= body.targetDuration \/ i = Len(downloadedVideoFiles)
               THEN i' = 1 /\ pc' = "concatVideos"
               ELSE i' = i + 1 /\ pc' = pc
            /\ UNCHANGED response
    /\ UNCHANGED <<reqVars, downloadedVideoFiles, processedVideoFiles,
                   imageVars, appendVars, outputFile, actualDuration>>

\* Step 1, end: concatenate the processed videos and cut the result to the target.
ConcatVideos ==
    /\ pc = "concatVideos"
    /\ UNCHANGED notAllocVars
    /\ processedVideoFiles' =
          IF Len(processedVideos) > 0
          THEN Append(processedVideoFiles,
                      TrimConcatenated(concat(Paths(processedVideos)), body.targetDuration))
          ELSE processedVideoFiles
    /\ pc' = "step2"
    /\ UNCHANGED <<reqVars, i, clipVars, imageVars, appendVars, outVars>>

\* Mutant of Step2: the image pool is entered whatever time is left.
Step2_NoGuard ==
    /\ pc = "step2"
    /\ UNCHANGED notAllocVars
    /\ LET currentDuration ==
              IF Len(processedVideoFiles) > 0
              THEN getVideoDuration(processedVideoFiles[1]) ELSE 0
       IN  remainingDuration' = body.targetDuration - currentDuration
    /\ pc' = IF Len(imageUrls) > 0 THEN "downloadImages" ELSE "step3"
    /\ i' = 1
    /\ UNCHANGED <<reqVars, clipVars, processedVideoFiles, downloadedImageFiles,
                   validImages, imageVideoFiles, accumulatedDuration, appendVars, outVars>>

\* Step 2, entry: the time left after the clips decides whether images are used.
Step2 ==
    /\ pc = "step2"
    /\ UNCHANGED notAllocVars
    /\ LET currentDuration ==
              IF Len(processedVideoFiles) > 0
              THEN getVideoDuration(processedVideoFiles[1]) ELSE 0
       IN  remainingDuration' = body.targetDuration - currentDuration
    /\ pc' = IF remainingDuration' > 0 /\ Len(imageUrls) > 0
             THEN "downloadImages" ELSE "step3"
    /\ i' = 1
    /\ UNCHANGED <<reqVars, clipVars, processedVideoFiles, downloadedImageFiles,
                   validImages, imageVideoFiles, accumulatedDuration, appendVars, outVars>>

\* Step 2, first loop: download image i; a failed download is skipped.
DownloadImage ==
    /\ pc = "downloadImages"
    /\ UNCHANGED notAllocVars
    /\ LET src == imageUrls[i] IN
       downloadedImageFiles' =
          IF body.imageUrls[src].fetch
          THEN Append(downloadedImageFiles, src) ELSE downloadedImageFiles
    /\ IF i < Len(imageUrls)
       THEN i' = i + 1 /\ pc' = pc
       ELSE i' = 1 /\ pc' = IF Len(downloadedImageFiles') > 0
                            THEN "filterImages" ELSE "step3"
    /\ UNCHANGED <<reqVars, clipVars, processedVideoFiles, remainingDuration,
                   validImages, imageVideoFiles, accumulatedDuration, appendVars, outVars>>

\* Step 2, second loop: probe image i; failed probes and small images are skipped.
FilterImage ==
    /\ pc = "filterImages"
    /\ UNCHANGED notAllocVars
    /\ LET src   == downloadedImageFiles[i]
           image == body.imageUrls[src]
       IN  validImages' =
              IF image.probe /\ ImageValid(image)
              THEN Append(validImages,
                          [path |-> src, width |-> image.width, height |-> image.height])
              ELSE validImages
    /\ IF i < Len(downloadedImageFiles)
       THEN i' = i + 1 /\ pc' = pc
       ELSE i' = 1 /\ pc' = IF Len(validImages') > 0 THEN "renderImages" ELSE "step3"
    /\ UNCHANGED <<reqVars, clipVars, processedVideoFiles, remainingDuration,
                   downloadedImageFiles, imageVideoFiles, accumulatedDuration,
                   appendVars, outVars>>

\* Step 2, third loop: render image i as a scrolling or static video, clamped to
\* the time left; stop once the remaining duration is covered.
RenderImage ==
    /\ pc = "renderImages"
    /\ UNCHANGED notAllocVars
    /\ LET image == validImages[i]
           imageVideoDuration ==
              ClampImageDuration(ImageCandidateDuration(image),
                                 accumulatedDuration, remainingDuration)
       IN  /\ imageVideoFiles' = Append(imageVideoFiles,
                  << Segment("image", image.path, imageVideoDuration) >>)
           /\ accumulatedDuration' = accumulatedDuration + imageVideoDuration
    /\ IF accumulatedDuration' >= remainingDuration \/ i = Len(validImages)
       THEN /\ i' = 1
            /\ pc' = "step3"
            /\ processedVideoFiles' = processedVideoFiles \o imageVideoFiles'
       ELSE /\ i' = i + 1
            /\ pc' = pc
            /\ UNCHANGED processedVideoFiles
    /\ UNCHANGED <<reqVars, clipVars, remainingDuration, downloadedImageFiles,
                   validImages, appendVars, outVars>>

\* Step 3, entry: the time left after the images decides whether append videos are used.
Step3 ==
    /\ pc = "step3"
    /\ UNCHANGED notAllocVars
    /\ LET currentTotalDuration == SumFileDurations(processedVideoFiles)
       IN  remainingAfterImages' = body.targetDuration - currentTotalDuration
    /\ pc' = IF remainingAfterImages' > 0 /\ Len(appendVideoUrls) > 0
             THEN "downloadAppendVideos" ELSE "step4"
    /\ i' = 1
    /\ UNCHANGED <<reqVars, clipVars, processedVideoFiles, imageVars,
                   downloadedAppendVideoFiles, appendProcessedVideos,
                   appendAccumulatedDuration, outVars>>

\* Step 3, first loop: download append video i; a failed download is skipped.
DownloadAppendVideo ==
    /\ pc = "downloadAppendVideos"
    /\ UNCHANGED notAllocVars
    /\ LET src == appendVideoUrls[i] IN
       downloadedAppendVideoFiles' =
          IF body.appendVideoUrls[src].fetch
          THEN Append(downloadedAppendVideoFiles, src) ELSE downloadedAppendVideoFiles
    /\ IF i < Len(appendVideoUrls)
       THEN i' = i + 1 /\ pc' = pc
       ELSE i' = 1 /\ pc' = IF Len(downloadedAppendVideoFiles') > 0
                            THEN "processAppendVideos" ELSE "trimAppendVideos"
    /\ UNCHANGED <<reqVars, clipVars, processedVideoFiles, imageVars,
                   remainingAfterImages, appendProcessedVideos,
                   appendAccumulatedDuration, outVars>>

\* Step 3, second loop: probe and convert append video i, stop once the
\* remaining duration is covered; a failed probe throws.
ProcessAppendVideo ==
    /\ pc = "processAppendVideos"
    /\ UNCHANGED notAllocVars
    /\ LET src == downloadedAppendVideoFiles[i] IN
       IF ~body.appendVideoUrls[src].probe
       THEN /\ Throw
            /\ UNCHANGED <<i, appendProcessedVideos, appendAccumulatedDuration>>
       ELSE LET duration == body.appendVideoUrls[src].duration IN
            /\ appendProcessedVideos' = Append(appendProcessedVideos,
                   [path |-> << Segment("filler", src, duration) >>, duration |-> duration])
            /\ appendAccumulatedDuration' = appendAccumulatedDuration + duration
            /\ IF appendAccumulatedDuration' >= remainingAfterImages
                  \/ i = Len(downloadedAppendVideoFiles)
               THEN i' = 1 /\ pc' = "trimAppendVideos"
               ELSE i' = i + 1 /\ pc' = pc
            /\ UNCHANGED response
    /\ UNCHANGED <<reqVars, clipVars, processedVideoFiles, imageVars,
                   remainingAfterImages, downloadedAppendVideoFiles,
                   outputFile, actualDuration>>

\* Step 3, end: cut the last append video to the time left and add the append
\* videos to the concatenation list.
TrimAppendVideos ==
    /\ pc = "trimAppendVideos"
    /\ UNCHANGED notAllocVars
    /\ appendProcessedVideos' =
          TrimLastAppend(appendProcessedVideos, appendAccumulatedDuration,
                         remainingAfterImages)
    /\ processedVideoFiles' = processedVideoFiles \o Paths(appendProcessedVideos')
    /\ pc' = "step4"
    /\ UNCHANGED <<reqVars, i, clipVars, imageVars, remainingAfterImages,
                   downloadedAppendVideoFiles, appendAccumulatedDuration, outVars>>

\* Step 4: nothing to concatenate is an error; otherwise concatenate, cut the
\* result to the target and answer with the measured duration.
Step4 ==
    /\ pc = "step4"
    /\ UNCHANGED notAllocVars
    /\ IF Len(processedVideoFiles) = 0
       THEN /\ Reply(ErrorResponse(400, "no_video_generated"))
            /\ UNCHANGED <<outputFile, actualDuration>>
       ELSE /\ outputFile' = TrimFinal(concat(processedVideoFiles), body.targetDuration)
            /\ actualDuration' = getVideoDuration(outputFile')
            /\ Reply(SuccessResponse(actualDuration'))
    /\ UNCHANGED <<reqVars, i, clipVars, processedVideoFiles, imageVars, appendVars>>

AllocNext ==
    \/ Validate
    \/ DownloadVideo
    \/ ProcessVideo
    \/ ConcatVideos
    \/ Step2
    \/ DownloadImage
    \/ FilterImage
    \/ RenderImage
    \/ Step3
    \/ DownloadAppendVideo
    \/ ProcessAppendVideo
    \/ TrimAppendVideos
    \/ Step4


\* ------------------------------------------------------------------------
\* Several requests: the handler's variables are locals of one invocation
\* ------------------------------------------------------------------------
\* The local variables of the running handler.
Locals ==
    [ body |-> body,
      pc |-> pc,
      i |-> i,
      videoUrls |-> videoUrls,
      imageUrls |-> imageUrls,
      appendVideoUrls |-> appendVideoUrls,
      downloadedVideoFiles |-> downloadedVideoFiles,
      processedVideos |-> processedVideos,
      totalVideoDuration |-> totalVideoDuration,
      processedVideoFiles |-> processedVideoFiles,
      remainingDuration |-> remainingDuration,
      downloadedImageFiles |-> downloadedImageFiles,
      validImages |-> validImages,
      imageVideoFiles |-> imageVideoFiles,
      accumulatedDuration |-> accumulatedDuration,
      remainingAfterImages |-> remainingAfterImages,
      downloadedAppendVideoFiles |-> downloadedAppendVideoFiles,
      appendProcessedVideos |-> appendProcessedVideos,
      appendAccumulatedDuration |-> appendAccumulatedDuration,
      outputFile |-> outputFile,
      actualDuration |-> actualDuration,
      response |-> response ]

\* Mutant of Fresh: the concatenation list outlives the call.
Fresh_KeepList(b) ==
    [ body |-> b,
      pc |-> "validate",
      i |-> 1,
      videoUrls |-> <<>>,
      imageUrls |-> <<>>,
      appendVideoUrls |-> <<>>,
      downloadedVideoFiles |-> <<>>,
      processedVideos |-> <<>>,
      totalVideoDuration |-> 0,
      processedVideoFiles |-> processedVideoFiles,
      remainingDuration |-> 0,
      downloadedImageFiles |-> <<>>,
      validImages |-> <<>>,
      imageVideoFiles |-> <<>>,
      accumulatedDuration |-> 0,
      remainingAfterImages |-> 0,
      downloadedAppendVideoFiles |-> <<>>,
      appendProcessedVideos |-> <<>>,
      appendAccumulatedDuration |-> 0,
      outputFile |-> <<>>,
      actualDuration |-> 0,
      response |-> NoResponse ]

\* The local variables of a handler that has just been invoked with body b.
Fresh(b) ==
    [ body |-> b,
      pc |-> "validate",
      i |-> 1,
      videoUrls |-> <<>>,
      imageUrls |-> <<>>,
      appendVideoUrls |-> <<>>,
      downloadedVideoFiles |-> <<>>,
      processedVideos |-> <<>>,
      totalVideoDuration |-> 0,
      processedVideoFiles |-> <<>>,
      remainingDuration |-> 0,
      downloadedImageFiles |-> <<>>,
      validImages |-> <<>>,
      imageVideoFiles |-> <<>>,
      accumulatedDuration |-> 0,
      remainingAfterImages |-> 0,
      downloadedAppendVideoFiles |-> <<>>,
      appendProcessedVideos |-> <<>>,
      appendAccumulatedDuration |-> 0,
      outputFile |-> <<>>,
      actualDuration |-> 0,
      response |-> NoResponse ]

\* Mutant of Resume: the concatenation list is shared by the two handlers.
Resume_SharedList(saved) == [saved EXCEPT !.processedVideoFiles = processedVideoFiles]

\* The locals a suspended handler finds when the event loop resumes it.
Resume(saved) == saved

Load(saved) ==
    /\ body' = saved.body
    /\ pc' = saved.pc
    /\ i' = saved.i
    /\ videoUrls' = saved.videoUrls
    /\ imageUrls' = saved.imageUrls
    /\ appendVideoUrls' = saved.appendVideoUrls
    /\ downloadedVideoFiles' = saved.downloadedVideoFiles
    /\ processedVideos' = saved.processedVideos
    /\ totalVideoDuration' = saved.totalVideoDuration
    /\ processedVideoFiles' = saved.processedVideoFiles
    /\ remainingDuration' = saved.remainingDuration
    /\ downloadedImageFiles' = saved.downloadedImageFiles
    /\ validImages' = saved.validImages
    /\ imageVideoFiles' = saved.imageVideoFiles
    /\ accumulatedDuration' = saved.accumulatedDuration
    /\ remainingAfterImages' = saved.remainingAfterImages
    /\ downloadedAppendVideoFiles' = saved.downloadedAppendVideoFiles
    /\ appendProcessedVideos' = saved.appendProcessedVideos
    /\ appendAccumulatedDuration' = saved.appendAccumulatedDuration
    /\ outputFile' = saved.outputFile
    /\ actualDuration' = saved.actualDuration
    /\ response' = saved.response

\* res.json of a finished handler and the timeline it produced.
Result(locals) ==
    [response |-> locals.response, outputFile |-> locals.outputFile,
     actualDuration |-> locals.actualDuration]

NoResult == [response |-> NoResponse, outputFile |-> <<>>, actualDuration |-> 0]

Peer(c) == IF c = "A" THEN "B" ELSE "A"

Running(p) == p \notin {"validate", "done"}

\* The running request has answered; the next request is invoked: B alone
\* after A alone, then A and B together.
Return ==
    /\ phase \in {1, 2}
    /\ pc = "done"
    /\ solo' = [solo EXCEPT ![call] = Result(Locals)]
    /\ Load(Fresh(other.body))
    /\ other' = Fresh(body)
    /\ call' = Peer(call)
    /\ phase' = phase + 1
    /\ UNCHANGED overlapped
    /\ UNCHANGED <<subVars, synthVars, loginVars, mergeVars>>

\* The event loop suspends the running handler at an await and resumes the other.
Switch ==
    /\ phase = 3
    /\ Load(Resume(other))
    /\ other' = Locals
    /\ call' = Peer(call)
    /\ overlapped' = (overlapped \/ (Running(pc) /\ Running(other.pc)))
    /\ UNCHANGED <<phase, solo>>
    /\ UNCHANGED <<subVars, synthVars, loginVars, mergeVars>>

TwoNext ==
    \/ AllocNext
    \/ Return
    \/ Switch

\* ------------------------------------------------------------------------
\* JavaScript numbers: IEEE-754 binary64 with round-to-nearest-even.
\* A natural number of any size is a little-endian sequence of limbs in base
\* 2^15 without leading zero limbs.  A number is [s, m, e] of value
\* s * m * 2^e with 2^52 <= m < 2^53, or m = <<>> for zero.  Infinities, NaN,
\* subnormals and -0 do not occur for the durations of the model.
\* ------------------------------------------------------------------------
LimbBits == 15

LimbBase == 32768

MantissaBits == 53

Big == Seq(Nat)

BTrim[a \in Big] ==
    IF a = <<>> THEN <<>>
    ELSE IF a[Len(a)] = 0 THEN BTrim[SubSeq(a, 1, Len(a) - 1)] ELSE a

BFromInt[n \in Nat] == BTrim[<< n % LimbBase, n \div LimbBase >>]

BAddCarry[a \in Big, b \in Big, c \in Nat] ==
    IF a = <<>> /\ b = <<>> THEN (IF c = 0 THEN <<>> ELSE << c >>)
    ELSE LET x == IF a = <<>> THEN 0 ELSE Head(a)
             y == IF b = <<>> THEN 0 ELSE Head(b)
         IN  << (x + y + c) % LimbBase >>
             \o BAddCarry[IF a = <<>> THEN <<>> ELSE Tail(a),
                          IF b = <<>> THEN <<>> ELSE Tail(b),
                          (x + y + c) \div LimbBase]

BAdd[a \in Big, b \in Big] == BAddCarry[a, b, 0]

BSubBorrow[a \in Big, b \in Big, c \in Nat] ==
    IF a = <<>> THEN <<>>
    ELSE LET t == Head(a) - (IF b = <<>> THEN 0 ELSE Head(b)) - c
         IN  << IF t < 0 THEN t + LimbBase ELSE t >>
             \o BSubBorrow[Tail(a), IF b = <<>> THEN <<>> ELSE Tail(b),
                           IF t < 0 THEN 1 ELSE 0]

\* a - b for a >= b
BSub[a \in Big, b \in Big] == BTrim[BSubBorrow[a, b, 0]]

BCmpFrom[a \in Big, b \in Big, k \in Nat] ==
    IF k = 0 THEN 0
    ELSE IF a[k] < b[k] THEN -1
    ELSE IF a[k] > b[k] THEN 1
    ELSE BCmpFrom[a, b, k - 1]

\* -1, 0 or 1 as a < b, a = b or a > b
BCmp[a \in Big, b \in Big] ==
    IF Len(a) < Len(b) THEN -1
    ELSE IF Len(a) > Len(b) THEN 1
    ELSE BCmpFrom[a, b, Len(a)]

BMulSmallCarry[a \in Big, k \in Nat, c \in Nat] ==
    IF a = <<>> THEN (IF c = 0 THEN <<>> ELSE << c >>)
    ELSE << (Head(a) * k + c) % LimbBase >>
         \o BMulSmallCarry[Tail(a), k, (Head(a) * k + c) \div LimbBase]

\* a * k for 0 <= k < 2^15
BMulSmall[a \in Big, k \in Nat] == BTrim[BMulSmallCarry[a, k, 0]]

BShiftLimbs[a \in Big, n \in Nat] ==
    IF a = <<>> \/ n = 0 THEN a ELSE << 0 >> \o BShiftLimbs[a, n - 1]

BMul[a \in Big, b \in Big] ==
    IF b = <<>> THEN <<>>
    ELSE BAdd[BMulSmall[a, Head(b)], BShiftLimbs[BMul[a, Tail(b)], 1]]

\* a * 2^k
BShl[a \in Big, k \in Nat] ==
    BShiftLimbs[BMulSmall[a, 2 ^ (k % LimbBits)], k \div LimbBits]

BDivSmallFrom[a \in Big, d \in Nat, k \in Nat, r \in Nat] ==
    IF k = 0 THEN <<>>
    ELSE BDivSmallFrom[a, d, k - 1, (r * LimbBase + a[k]) % d]
         \o << (r * LimbBase + a[k]) \div d >>

\* floor(a / d) for 0 < d <= 2^15
BDivSmall[a \in Big, d \in Nat] == BTrim[BDivSmallFrom[a, d, Len(a), 0]]

\* floor(a / 2^k)
BShr[a \in Big, k \in Nat] ==
    IF k \div LimbBits >= Len(a) THEN <<>>
    ELSE BDivSmall[SubSeq(a, (k \div LimbBits) + 1, Len(a)), 2 ^ (k % LimbBits)]

IntBitLen[n \in Nat] == IF n = 0 THEN 0 ELSE 1 + IntBitLen[n \div 2]

BBitLen[a \in Big] ==
    IF a = <<>> THEN 0 ELSE LimbBits * (Len(a) - 1) + IntBitLen[a[Len(a)]]

\* The largest digit d < 2^15 with d * b <= t, found bit by bit.
BDivDigit[t \in Big, b \in Big, bit \in Int, d \in Nat] ==
    IF bit < 0 THEN d
    ELSE IF BCmp[BMulSmall[b, d + 2 ^ bit], t] <= 0
         THEN BDivDigit[t, b, bit - 1, d + 2 ^ bit]
         ELSE BDivDigit[t, b, bit - 1, d]

\* One step of long division: the digit d of the partial dividend t.
BDivPut[q \in Big, t \in Big, b \in Big, d \in Nat] ==
    [q |-> BTrim[<< d >> \o q], r |-> BSub[t, BMulSmall[b, d]]]

\* A quotient and a remainder.
QuotRem == [q : Big, r : Big]

BDivLimb[prev \in QuotRem, x \in Nat, b \in Big] ==
    BDivPut[prev.q, BTrim[<< x >> \o prev.r], b,
            BDivDigit[BTrim[<< x >> \o prev.r], b, LimbBits - 1, 0]]

\* Long division of the limbs k..Len(a) of a by b: quotient q, remainder r.
BDivStep[a \in Big, b \in Big, k \in Nat] ==
    IF k > Len(a) THEN [q |-> <<>>, r |-> <<>>]
    ELSE BDivLimb[BDivStep[a, b, k + 1], a[k], b]

\* a = q * b + r with 0 <= r < b, for b > 0
BDivMod[a \in Big, b \in Big] == BDivStep[a, b, 1]

Double == [s : {-1, 1}, m : Big, e : Int]

Zero == [s |-> 1, m |-> <<>>, e |-> 0]

\* A mantissa q of 53 or 54 bits, brought back to 53 bits.
RoundNormal[s \in {-1, 1}, q \in Big, e \in Int] ==
    IF BBitLen[q] > MantissaBits
    THEN [s |-> s, m |-> BShr[q, 1], e |-> e + 1]
    ELSE [s |-> s, m |-> q, e |-> e]

\* q and the sh bits rem cut off below it: ties go to the even mantissa.
RoundHalf[s \in {-1, 1}, q \in Big, rem \in Big, sh \in Nat, e \in Int, sticky \in BOOLEAN] ==
    LET c == BCmp[rem, BShl[<< 1 >>, sh - 1]]
    IN  RoundNormal[s,
                    IF c > 0 \/ (c = 0 /\ (sticky \/ q[1] % 2 = 1))
                    THEN BAdd[q, << 1 >>] ELSE q,
                    e + sh]

RoundShift[s \in {-1, 1}, m \in Big, q \in Big, sh \in Nat, e \in Int, sticky \in BOOLEAN] ==
    RoundHalf[s, q, BSub[m, BShl[q, sh]], sh, e, sticky]

\* The double nearest to s * (m + f) * 2^e, where 0 < f < 1 if sticky and
\* f = 0 otherwise.
RoundDouble[s \in {-1, 1}, m \in Big, e \in Int, sticky \in BOOLEAN] ==
    IF m = <<>> THEN Zero
    ELSE IF BBitLen[m] <= MantissaBits
    THEN [s |-> s, m |-> BShl[m, MantissaBits - BBitLen[m]],
          e |-> e - (MantissaBits - BBitLen[m])]
    ELSE RoundShift[s, m, BShr[m, BBitLen[m] - MantissaBits],
                    BBitLen[m] - MantissaBits, e, sticky]

\* An integer n as a number (|n| < 2^30).
FromInt[n \in Int] ==
    IF n = 0 THEN Zero
    ELSE RoundDouble[IF n < 0 THEN -1 ELSE 1, BFromInt[IF n < 0 THEN -n ELSE n], 0, FALSE]

FNeg[a \in Double] == IF a.m = <<>> THEN a ELSE [a EXCEPT !.s = -a.s]

\* s * (am - bm) * 2^e for naturals am # bm
FAddSigned[s \in {-1, 1}, am \in Big, bm \in Big, e \in Int] ==
    IF BCmp[am, bm] > 0 THEN RoundDouble[s, BSub[am, bm], e, FALSE]
    ELSE RoundDouble[-s, BSub[bm, am], e, FALSE]

FAddAligned[a \in Double, b \in Double, e \in Int] ==
    IF a.s = b.s
    THEN RoundDouble[a.s, BAdd[BShl[a.m, a.e - e], BShl[b.m, b.e - e]], e, FALSE]
    ELSE IF BShl[a.m, a.e - e] = BShl[b.m, b.e - e] THEN Zero
    ELSE FAddSigned[a.s, BShl[a.m, a.e - e], BShl[b.m, b.e - e], e]

\* a + b
FAdd[a \in Double, b \in Double] ==
    IF a.m = <<>> THEN b
    ELSE IF b.m = <<>> THEN a
    ELSE FAddAligned[a, b, IF a.e < b.e THEN a.e ELSE b.e]

\* a - b
FSub[a \in Double, b \in Double] == FAdd[a, FNeg[b]]

\* a * b
FMul[a \in Double, b \in Double] ==
    IF a.m = <<>> \/ b.m = <<>> THEN Zero
    ELSE RoundDouble[a.s * b.s, BMul[a.m, b.m], a.e + b.e, FALSE]

FDivRound[s \in {-1, 1}, d \in QuotRem, e \in Int] ==
    RoundDouble[s, d.q, e, d.r # <<>>]

\* a / b for b # 0
FDiv[a \in Double, b \in Double] ==
    IF a.m = <<>> THEN Zero
    ELSE FDivRound[a.s * b.s, BDivMod[BShl[a.m, MantissaBits + 3], b.m],
                   a.e - b.e - (MantissaBits + 3)]

FSign[d \in Double] == IF d.m = <<>> THEN 0 ELSE d.s

\* a < b
FLess[a \in Double, b \in Double] == FSign[FSub[a, b]] = -1

\* a <= b
FLeq[a \in Double, b \in Double] == ~FLess[b, a]

\* a === b
FEq[a \in Double, b \in Double] == a = b

\* Math.min(a, b), Math.max(a, b)
FMin[a \in Double, b \in Double] == IF FLess[b, a] THEN b ELSE a

FMax[a \in Double, b \in Double] == IF FLess[a, b] THEN b ELSE a

\* The number a decimal literal or a probed duration n/d denotes.
Num(n, d) == FDiv[FromInt[n], FromInt[d]]

\* The value of a natural number given by its limbs (below 2^45).
BToInt[a \in Big] == IF a = <<>> THEN 0 ELSE Head(a) + LimbBase * BToInt[Tail(a)]

\* Math.floor(a) for 0 <= a < 2^45, as an integer.
Floor[a \in Double] ==
    IF a.m = <<>> THEN 0
    ELSE IF a.e >= 0 THEN BToInt[BShl[a.m, a.e]]
    ELSE BToInt[BShr[a.m, -a.e]]

\* a % n for a >= 0 and an integer n > 0: the remainder is exact.
FMod[a \in Double, n \in Nat] ==
    IF a.m = <<>> THEN Zero
    ELSE IF a.e >= 0
    THEN RoundDouble[1, BDivMod[BShl[a.m, a.e], BFromInt[n]].r, 0, FALSE]
    ELSE RoundDouble[1, BDivMod[a.m, BShl[BFromInt[n], -a.e]].r, a.e, FALSE]

\* ------------------------------------------------------------------------
\* calculateSubtitleTimings(segments, totalDuration, startTime)
\* ------------------------------------------------------------------------
MaxSegments == 3

\* The characters of the model: letters, punctuation marks and whitespace.
\* The full-width marks are named by their code points: U+3002 ideographic
\* full stop, U+FF01 exclamation mark, U+FF1F question mark, U+FF1B semicolon,
\* U+FF1A colon, U+FF0C comma, U+3001 ideographic comma.
Punctuation == {"U3002", "UFF01", "UFF1F", "UFF1B", "UFF1A", "UFF0C", "U3001", "\n"}

Whitespace == {" ", "\n"}

\* Fragments as splitTextByPunctuation returns them: trimmed and not empty.
SegmentTexts ==
    { <<"U3002">>,
      <<"a">>,
      <<"a", "b", "UFF0C">>,
      <<"a", "b", "c", "d", "e", "f", "U3002">> }

SeqsUpTo(S, n) == UNION { [1..k -> S] : k \in 0..n }

SubtitleDurations == { Num(1, 5), Num(9, 10), Num(6, 1) }

SubtitleStartTimes == { Num(0, 1), Num(5, 1) }

\* seg.replace(punctuationRegex, '').length
RECURSIVE CharCount(_)
CharCount(seg) ==
    IF seg = <<>> THEN 0
    ELSE (IF Head(seg) \in Punctuation \cup Whitespace THEN 0 ELSE 1) + CharCount(Tail(seg))

\* segments.reduce((sum, seg) => sum + CharCount(seg), 0)
RECURSIVE TotalChars(_)
TotalChars(segs) ==
    IF segs = <<>> THEN 0 ELSE CharCount(Head(segs)) + TotalChars(Tail(segs))

\* Mutant of Subtitle: the end time forgets the cursor.
Subtitle_NoCursor(segment, cursor, segmentDuration) ==
    [text |-> segment, startTime |-> cursor, endTime |-> segmentDuration]

\* One subtitle: it starts at the cursor and lasts segmentDuration.
Subtitle(segment, cursor, segmentDuration) ==
    [text |-> segment, startTime |-> cursor, endTime |-> FAdd[cursor, segmentDuration]]

\* Mutant of EvenSplit: every fragment starts at the start of the block.
EvenSplit_SameStart(segs, total, start) ==
    LET segmentDuration == FDiv[total, Num(Len(segs), 1)] IN
    [index \in 1..Len(segs) |->
        [text      |-> segs[index],
         startTime |-> start,
         endTime   |-> FAdd[start, FMul[Num(index, 1), segmentDuration]]]]

\* The all-punctuation branch: the block is split evenly.
EvenSplit(segs, total, start) ==
    LET segmentDuration == FDiv[total, Num(Len(segs), 1)] IN
    [index \in 1..Len(segs) |->
        [text      |-> segs[index],
         startTime |-> FAdd[start, FMul[Num(index - 1, 1), segmentDuration]],
         endTime   |-> FAdd[start, FMul[Num(index, 1), segmentDuration]]]]

\* Math.max(0.5, Math.min(totalDuration / 3, charCount * timePerChar))
IdealDuration(seg, total, totalChars) ==
    LET timePerChar == FDiv[total, Num(totalChars, 1)] IN
    FMax[Num(1, 2),
         FMin[FDiv[total, Num(3, 1)], FMul[Num(CharCount(seg), 1), timePerChar]]]

\* durations.reduce((sum, dur) => sum + dur, 0)
FSum[durations \in Seq(Double)] ==
    IF durations = <<>> THEN Zero
    ELSE FAdd[FSum[SubSeq(durations, 1, Len(durations) - 1)], durations[Len(durations)]]

\* idealTotal > totalDuration ? totalDuration / idealTotal : 1
ScaleFactor(ideals, total) ==
    IF FLess[total, FSum[ideals]] THEN FDiv[total, FSum[ideals]] ELSE Num(1, 1)

\* The duration given to fragment k of n inside the loop.
SegmentDuration(scaled, remaining, k, n) ==
    IF k = n
    THEN remaining
    ELSE FMax[Num(3, 10),
              FMin[scaled, FSub[remaining, FMul[Num(1, 2), Num(n - k, 1)]]]]

\* Mutant of LastEndTime: the block start offset is forgotten.
LastEndTime_NoOffset(start, total) == total

\* subtitles[subtitles.length - 1].endTime = startTime + totalDuration
LastEndTime(start, total) == FAdd[start, total]

SubInit ==
    /\ segments \in SeqsUpTo(SegmentTexts, MaxSegments)
    /\ totalDuration \in SubtitleDurations
    /\ startTime \in SubtitleStartTimes
    /\ subPc = "start"
    /\ subI = 1
    /\ idealDurations = <<>>
    /\ scaleFactor = Zero
    /\ subtitles = <<>>
    /\ currentTime = Zero
    /\ remainingTime = Zero

\* No segments: return [].
ReturnEmpty ==
    /\ subPc = "start"
    /\ Len(segments) = 0
    /\ subPc' = "returned"
    /\ UNCHANGED <<segments, totalDuration, startTime, subI, idealDurations,
                   scaleFactor, subtitles, currentTime, remainingTime>>
    /\ UNCHANGED notSubVars

\* Only punctuation: return the even split.
ReturnEvenSplit ==
    /\ subPc = "start"
    /\ Len(segments) > 0
    /\ TotalChars(segments) = 0
    /\ subtitles' = EvenSplit(segments, totalDuration, startTime)
    /\ subPc' = "returned"
    /\ UNCHANGED <<segments, totalDuration, startTime, subI, idealDurations,
                   scaleFactor, currentTime, remainingTime>>
    /\ UNCHANGED notSubVars

\* The weighted branch: ideal durations and the scale factor.
ComputeIdeals ==
    /\ subPc = "start"
    /\ Len(segments) > 0
    /\ TotalChars(segments) > 0
    /\ idealDurations' = [k \in 1..Len(segments) |->
                             IdealDuration(segments[k], totalDuration, TotalChars(segments))]
    /\ scaleFactor' = ScaleFactor(idealDurations', totalDuration)
    /\ currentTime' = startTime
    /\ remainingTime' = totalDuration
    /\ subI' = 1
    /\ subPc' = "assign"
    /\ UNCHANGED <<segments, totalDuration, startTime, subtitles>>
    /\ UNCHANGED notSubVars

\* One iteration of the assignment loop.
AssignSegment ==
    /\ subPc = "assign"
    /\ LET segmentDuration ==
              SegmentDuration(FMul[idealDurations[subI], scaleFactor], remainingTime,
                              subI, Len(segments))
       IN  /\ subtitles' = Append(subtitles,
                                  Subtitle(segments[subI], currentTime, segmentDuration))
           /\ currentTime' = FAdd[currentTime, segmentDuration]
           /\ remainingTime' = FSub[remainingTime, segmentDuration]
    /\ IF subI < Len(segments)
       THEN subI' = subI + 1 /\ subPc' = subPc
       ELSE subI' = subI /\ subPc' = "fixLast"
    /\ UNCHANGED <<segments, totalDuration, startTime, idealDurations, scaleFactor>>
    /\ UNCHANGED notSubVars

\* The end of the last subtitle is set to the end of the block; return.
FixLastEndTime ==
    /\ subPc = "fixLast"
    /\ subtitles' = IF Len(subtitles) > 0
                    THEN [subtitles EXCEPT ![Len(subtitles)].endTime =
                             LastEndTime(startTime, totalDuration)]
                    ELSE subtitles
    /\ subPc' = "returned"
    /\ UNCHANGED <<segments, totalDuration, startTime, subI, idealDurations,
                   scaleFactor, currentTime, remainingTime>>
    /\ UNCHANGED notSubVars

SubNext ==
    \/ ReturnEmpty
    \/ ReturnEvenSplit
    \/ ComputeIdeals
    \/ AssignSegment
    \/ FixLastEndTime

\* ------------------------------------------------------------------------
\* Specifications
\* ------------------------------------------------------------------------

\* ------------------------------------------------------------------------
\* splitTextByPunctuation(text)
\* ------------------------------------------------------------------------
\* A fragment longer than this is cut into pieces of this length.
MaxSegmentChars == 50

String == Seq(STRING)

\* s.trim()
TrimStart[s \in String] ==
    IF \A k \in 1..Len(s) : s[k] \in Whitespace THEN <<>>
    ELSE SubSeq(s, CHOOSE k \in 1..Len(s) :
                       s[k] \notin Whitespace /\ \A j \in 1..(k - 1) : s[j] \in Whitespace,
                Len(s))

TrimEnd[s \in String] ==
    IF \A k \in 1..Len(s) : s[k] \in Whitespace THEN <<>>
    ELSE SubSeq(s, 1, CHOOSE k \in 1..Len(s) :
                          s[k] \notin Whitespace /\ \A j \in (k + 1)..Len(s) : s[j] \in Whitespace)

Trim[s \in String] == TrimEnd[TrimStart[s]]

\* The position of the first mark of s, 0 if it has none.
FirstMark[s \in String] ==
    IF \A k \in 1..Len(s) : s[k] \notin Punctuation THEN 0
    ELSE CHOOSE k \in 1..Len(s) :
             s[k] \in Punctuation /\ \A j \in 1..(k - 1) : s[j] \notin Punctuation

\* text.split(/([marks])/): the runs between the marks, each followed by its mark.
SplitParts[s \in String] ==
    IF FirstMark[s] = 0 THEN << s >>
    ELSE << SubSeq(s, 1, FirstMark[s] - 1), << s[FirstMark[s]] >> >>
         \o SplitParts[SubSeq(s, FirstMark[s] + 1, Len(s))]

\* Mutant of IsPunctuation: no part is taken for a mark.
IsPunctuation_Never(part) == FALSE

\* punctuationRegex.test(part)
IsPunctuation(part) == \E k \in 1..Len(part) : part[k] \in Punctuation

\* Mutant of Chunk: the character that fills the chunk is dropped.
Chunk_Short(words, k) ==
    SubSeq(words, MaxSegmentChars * (k - 1) + 1, MaxSegmentChars * k - 1)

\* The k-th tempSegment that reaches MaxSegmentChars characters.
Chunk(words, k) == SubSeq(words, MaxSegmentChars * (k - 1) + 1, MaxSegmentChars * k)

\* The forced split: the characters are read one by one and every
\* MaxSegmentChars of them are pushed as a fragment; the rest stays current.
ForceSplit[words \in String, segs \in Seq(String)] ==
    [segments |->
        segs \o [k \in 1..(Len(words) \div MaxSegmentChars) |-> Trim[Chunk(words, k)]],
     currentSegment |->
        SubSeq(words, MaxSegmentChars * (Len(words) \div MaxSegmentChars) + 1, Len(words))]

\* The body of the loop over the parts, for a part that is a mark.
PushMark[part \in String, segs \in Seq(String), cur \in String] ==
    IF Trim[cur \o part] # <<>>
    THEN [segments |-> Append(segs, Trim[cur \o part]), currentSegment |-> <<>>]
    ELSE [segments |-> segs, currentSegment |-> cur \o part]

\* The body of the loop over the parts, for a part that is a run.
PushRun[part \in String, segs \in Seq(String), cur \in String] ==
    IF Len(cur \o part) > MaxSegmentChars
    THEN ForceSplit[cur \o part, segs]
    ELSE [segments |-> segs, currentSegment |-> cur \o part]

\* for (let i = 0; i < parts.length; i++), from part k on
SplitLoop[parts \in Seq(String), k \in Nat, segs \in Seq(String), cur \in String] ==
    IF k > Len(parts) THEN [segments |-> segs, currentSegment |-> cur]
    ELSE IF parts[k] = <<>> THEN SplitLoop[parts, k + 1, segs, cur]
    ELSE IF IsPunctuation(parts[k])
         THEN SplitLoop[parts, k + 1, PushMark[parts[k], segs, cur].segments,
                        PushMark[parts[k], segs, cur].currentSegment]
         ELSE SplitLoop[parts, k + 1, PushRun[parts[k], segs, cur].segments,
                        PushRun[parts[k], segs, cur].currentSegment]

\* The last fragment is added if it is not blank.
PushLast[segs \in Seq(String), cur \in String] ==
    IF Trim[cur] # <<>> THEN Append(segs, Trim[cur]) ELSE segs

\* Mutant of NotEmpty: empty segments are kept.
NotEmpty_Any(seg) == TRUE

\* seg => seg.length > 0
NotEmpty(seg) == Len(seg) > 0

\* segments.filter(seg => seg.length > 0)
FilterEmpty[segs \in Seq(String)] ==
    IF segs = <<>> THEN <<>>
    ELSE (IF NotEmpty(Head(segs)) THEN << Head(segs) >> ELSE <<>>) \o FilterEmpty[Tail(segs)]

splitTextByPunctuation[s \in String] ==
    IF s = <<>> \/ Trim[s] = <<>> THEN <<>>
    ELSE FilterEmpty[PushLast[SplitLoop[SplitParts[s], 1, <<>>, <<>>].segments,
                              SplitLoop[SplitParts[s], 1, <<>>, <<>>].currentSegment]]

\* The text of the example: ni hao . jin tian tian qi bu cuo , shi he chu men .
\* (U+4F60 U+597D U+3002 U+4ECA U+5929 U+5929 U+6C14 U+4E0D U+9519 U+FF0C
\* U+9002 U+5408 U+51FA U+95E8 U+3002).
ExampleText ==
    << "U4F60", "U597D", "U3002", "U4ECA", "U5929", "U5929", "U6C14", "U4E0D", "U9519",
       "UFF0C", "U9002", "U5408", "U51FA", "U95E8", "U3002" >>

\* A run longer than two forced chunks whose second chunk is blank.
LongText == [k \in 1..(2 * MaxSegmentChars + 1) |-> IF k <= MaxSegmentChars THEN "a" ELSE " "]

\* A run of exactly the cap, closed by a full stop.
FullRunText == [k \in 1..(MaxSegmentChars + 1) |-> IF k <= MaxSegmentChars THEN "a" ELSE "U3002"]

\* A run longer than the cap, without blanks, then a mark and a last character.
SplitRunText ==
    [k \in 1..(MaxSegmentChars + 4) |->
        IF k <= MaxSegmentChars THEN "a"
        ELSE IF k <= MaxSegmentChars + 2 THEN "b"
        ELSE IF k = MaxSegmentChars + 3 THEN "UFF0C" ELSE "c"]

\* Narration texts: empty, blank, with and without marks, with blanks around
\* the marks.
Texts ==
    { <<>>,
      << " " >>,
      << " ", "\n", " " >>,
      << "a" >>,
      << " ", "a", "b", " " >>,
      << "U3002" >>,
      << "U3002", "UFF01" >>,
      << "a", "U3002", " ", "UFF0C", "b" >>,
      << "\n", "a", "\n", "\n", "b", "UFF1F" >>,
      << "a", "b", "UFF0C", " ", "c", "U3002", " " >>,
      LongText,
      FullRunText,
      SplitRunText,
      ExampleText }

\* No synthesis is running.
SynthIdle == text = <<>>

\* One synthesis of the subtitles of a narration block.
SynthInit ==
    /\ text \in Texts
    /\ totalDuration \in SubtitleDurations
    /\ startTime \in SubtitleStartTimes
    /\ segments = <<>>
    /\ subPc = "split"
    /\ subI = 1
    /\ idealDurations = <<>>
    /\ scaleFactor = Zero
    /\ subtitles = <<>>
    /\ currentTime = Zero
    /\ remainingTime = Zero

\* const segments = splitTextByPunctuation(text)
SplitText ==
    /\ subPc = "split"
    /\ segments' = splitTextByPunctuation[text]
    /\ subPc' = "start"
    /\ UNCHANGED <<totalDuration, startTime, subI, idealDurations, scaleFactor,
                   subtitles, currentTime, remainingTime>>
    /\ UNCHANGED notSubVars

SynthNext ==
    \/ SplitText
    \/ SubNext

\* ------------------------------------------------------------------------
\* LoginValidator (src/utils/loginValidator.js)
\* ------------------------------------------------------------------------
\* Successful validations served at most (each one stamps the file it saves).
MaxSaves == 2

\* Object.keys(PLATFORM_CONFIG)
Platforms == {"xiaohongshu", "douyin", "youtube"}

\* null: no path, no cookies.
Null == << >>

\* A result without an error field.
NoError == "undefined"

\* A cookie as the request and the saved file carry it.
Cookie(name, value, session) == [name |-> name, value |-> value, session |-> session]

\* The cookies arrays of the requests.
CookieArrays == { <<>>, << Cookie("sid", "v1", FALSE) >> }

\* Seconds: the time of the calls, and the expiry of a persistent cookie.
Now == 10
Future == 20
SessionExpires == 0 - 1

\* The cookie handed to the browser context: a request cookie has no
\* expires field, so it becomes a session cookie (expires -1).
PlaywrightCookie(cookie) ==
    [name |-> cookie.name, value |-> cookie.value, expires |-> SessionExpires]

\* formatCookies: session is expires === -1 || !expires || expires < now.
FormatCookie(cookie) ==
    Cookie(cookie.name, cookie.value,
           cookie.expires = SessionExpires \/ cookie.expires = 0 \/ cookie.expires < Now)

formatCookies(cookies) == [k \in 1..Len(cookies) |-> FormatCookie(cookies[k])]

\* What the visit of checkUrl does: the page load throws, the page is the
\* login page, or the user is logged in and the site has set the cookies
\* given (none, or a persistent token).
SiteCookies == { <<>>, << [name |-> "token", value |-> "t", expires |-> Future] >> }

Visits ==
    { [outcome |-> "throws", set |-> <<>>], [outcome |-> "loggedOut", set |-> <<>>] }
        \cup { [outcome |-> "loggedIn", set |-> c] : c \in SiteCookies }

\* File names, by their parts.
\* saveCookies: `${platform}-cookies.json`
SavedFileName(platform) == << platform, "-cookies", ".json" >>

Stamps == {"1700000000000", "1700000000001"}

\* A file name with a time stamp, as findLatestCookieFile expects it.
StampedFileName(platform, stamp) == << platform, "-cookies", "-", stamp, ".json" >>

\* new RegExp(`^${platform}-cookies-\\d+\\.json$`).test(file)
MatchesPattern(file, platform) ==
    /\ Len(file) = 5
    /\ file[1] = platform
    /\ file[2] = "-cookies"
    /\ file[3] = "-"
    /\ file[4] \in Stamps
    /\ file[5] = ".json"

\* The content of a file: JSON that is an array of cookies, or not an array.
JsonArray(cookies) == [isArray |-> TRUE, cookies |-> cookies]

NotAnArray == [isArray |-> FALSE, cookies |-> <<>>]

File(content, mtime) == [content |-> content, mtime |-> mtime]

\* The files of the platform, newest first: the first one.
findLatestCookieFile(dir, platform) ==
    LET files == { f \in DOMAIN dir : MatchesPattern(f, platform) }
    IN  IF files = {} THEN Null
        ELSE CHOOSE f \in files : \A g \in files : dir[g].mtime <= dir[f].mtime

LoadFailure == [success |-> FALSE, cookies |-> <<>>, filePath |-> Null]

loadCookiesFromFile(dir, platform, filePath) ==
    LET targetPath == IF filePath = Null THEN findLatestCookieFile(dir, platform)
                      ELSE filePath
    IN  IF targetPath = Null THEN LoadFailure
        ELSE IF targetPath \notin DOMAIN dir THEN LoadFailure
        ELSE IF ~dir[targetPath].content.isArray THEN LoadFailure
        ELSE IF Len(dir[targetPath].content.cookies) = 0 THEN LoadFailure
        ELSE [success |-> TRUE, cookies |-> dir[targetPath].content.cookies,
              filePath |-> targetPath]

\* fs.writeFileSync(filepath, JSON.stringify(cookies, null, 2), 'utf-8')
saveCookies(dir, platform, cookies, mtime) ==
    [f \in DOMAIN dir \cup {SavedFileName(platform)} |->
        IF f = SavedFileName(platform) THEN File(JsonArray(cookies), mtime)
        ELSE dir[f]]

NoValidator ==
    [platform |-> "none", cookies |-> <<>>, cookieFilePath |-> Null, cookiesToUse |-> <<>>,
     loadedFromFile |-> FALSE, loadedPath |-> Null, savedBefore |-> Null]

NoLoginResult == [success |-> FALSE, error |-> NoError, cookies |-> <<>>, savedPath |-> Null]

\* The directories a first call can find: empty, or holding stamped files
\* that were put there by hand.
EmptyDir == [f \in {} |-> File(NotAnArray, 0)]

StampedContents ==
    { JsonArray(<< Cookie("sid", "old", FALSE) >>), JsonArray(<<>>), NotAnArray }

InitialDirs ==
    {EmptyDir}
        \cup { [f \in {StampedFileName(p, "1700000000000")} |-> File(c, 1)] :
                 p \in Platforms, c \in StampedContents }
        \cup { [f \in {StampedFileName(p, "1700000000000"), StampedFileName(p, "1700000000001")}
                  |-> IF f = StampedFileName(p, "1700000000000")
                      THEN File(JsonArray(<< Cookie("sid", "old", FALSE) >>), 1)
                      ELSE File(JsonArray(<< Cookie("sid", "new", FALSE) >>), 2)] :
                 p \in Platforms }

\* The paths a request can name in cookieFilePath.
CookieFilePaths ==
    {Null} \cup { SavedFileName(p) : p \in {"xiaohongshu"} }

FirstClock == 3

\* No validation has been asked for.
LoginIdle ==
    /\ cookieDir = << >>
    /\ clock = 0
    /\ validator = << >>
    /\ loginResult = << >>
    /\ savedCookies = << >>

LoginInit ==
    /\ cookieDir \in InitialDirs
    /\ clock = FirstClock
    /\ validator = NoValidator
    /\ loginResult = NoLoginResult
    /\ savedCookies = [p \in Platforms |-> Null]

\* validate() returns no_cookies_available: no cookies, and none loaded.
ValidateNoCookies(platform, cookies, cookieFilePath) ==
    /\ Len(cookies) = 0
    /\ ~loadCookiesFromFile(cookieDir, platform, cookieFilePath).success
    /\ validator' = [platform |-> platform, cookies |-> cookies,
                     cookieFilePath |-> cookieFilePath, cookiesToUse |-> <<>>,
                     loadedFromFile |-> FALSE, loadedPath |-> Null,
                     savedBefore |-> savedCookies[platform]]
    /\ loginResult' = [success |-> FALSE, error |-> "no_cookies_available",
                       cookies |-> <<>>, savedPath |-> Null]
    /\ UNCHANGED <<cookieDir, clock, savedCookies>>

\* validate() visits checkUrl with the cookies given or loaded.
ValidateVisit(platform, cookies, cookieFilePath, visit) ==
    LET loadedResult == loadCookiesFromFile(cookieDir, platform, cookieFilePath)
        loadedFromFile == Len(cookies) = 0
        cookiesToUse == IF loadedFromFile THEN loadedResult.cookies ELSE cookies
        playwrightCookies == [k \in 1..Len(cookiesToUse) |-> PlaywrightCookie(cookiesToUse[k])]
        formattedCookies == formatCookies(playwrightCookies \o visit.set)
    IN  /\ loadedFromFile => loadedResult.success
        /\ validator' = [platform |-> platform, cookies |-> cookies,
                         cookieFilePath |-> cookieFilePath, cookiesToUse |-> cookiesToUse,
                         loadedFromFile |-> loadedFromFile,
                         loadedPath |-> IF loadedFromFile THEN loadedResult.filePath ELSE Null,
                         savedBefore |-> savedCookies[platform]]
        /\ IF visit.outcome = "loggedIn"
           THEN /\ clock < FirstClock + MaxSaves
                /\ cookieDir' = saveCookies(cookieDir, platform, formattedCookies, clock)
                /\ clock' = clock + 1
                /\ savedCookies' = [savedCookies EXCEPT ![platform] = formattedCookies]
                /\ loginResult' = [success |-> TRUE, error |-> NoError,
                                   cookies |-> formattedCookies,
                                   savedPath |-> SavedFileName(platform)]
           ELSE /\ loginResult' = [success |-> FALSE,
                                   error |-> IF visit.outcome = "throws" THEN "thrown" ELSE NoError,
                                   cookies |-> <<>>, savedPath |-> Null]
                /\ UNCHANGED <<cookieDir, clock, savedCookies>>

\* LoginValidator.validate(platform, cookies, options)
LoginValidate ==
    /\ \E platform \in Platforms, cookies \in CookieArrays, cookieFilePath \in CookieFilePaths :
          \/ ValidateNoCookies(platform, cookies, cookieFilePath)
          \/ \E visit \in Visits : ValidateVisit(platform, cookies, cookieFilePath, visit)
    /\ UNCHANGED <<allocVars, subVars, callVars, synthVars, mergeVars>>

LoginNext == LoginValidate

\* ------------------------------------------------------------------------
\* POST /merge/audio (routes/audio.js): the narration is delayed, then the
\* subtitle blocks of the downloaded files are timed and written as SRT
\* ------------------------------------------------------------------------
\* The most audioUrls of a request.
MaxAudioUrls == 2

\* Seconds the narration is delayed when it is mixed over background music.
DELAY_SECONDS_MIX == 1
\* Seconds of silence put before the narration when there is no background.
DELAY_SECONDS_SILENCE == 5
\* Seconds at which the subtitles start.
SUBTITLE_START_OFFSET == 5

\* The decimal digits.
Digits == << "0", "1", "2", "3", "4", "5", "6", "7", "8", "9" >>

\* String(n) for a natural number.
DecimalString[n \in Nat] ==
    IF n < 10 THEN << Digits[n + 1] >>
    ELSE Append(DecimalString[n \div 10], Digits[(n % 10) + 1])

\* str.padStart(targetLength, padString) for a one-character padString.
padStart(str, targetLength, padString) ==
    IF Len(str) >= targetLength THEN str
    ELSE [k \in 1..(targetLength - Len(str)) |-> padString] \o str

\* The fields of formatSrtTime(seconds), seconds >= 0.
SrtFields[seconds \in Double] ==
    [hours        |-> Floor[FDiv[seconds, Num(3600, 1)]],
     minutes      |-> Floor[FDiv[FMod[seconds, 3600], Num(60, 1)]],
     secs         |-> Floor[FMod[seconds, 60]],
     milliseconds |-> Floor[FMul[FMod[seconds, 1], Num(1000, 1)]]]

\* HH:MM:SS,mmm
formatSrtTime[seconds \in Double] ==
    padStart(DecimalString[SrtFields[seconds].hours], 2, "0") \o << ":" >>
        \o padStart(DecimalString[SrtFields[seconds].minutes], 2, "0") \o << ":" >>
        \o padStart(DecimalString[SrtFields[seconds].secs], 2, "0") \o << "," >>
        \o padStart(DecimalString[SrtFields[seconds].milliseconds], 3, "0")

\* One entry of the SRT file: sequence, start --> end, text.
generateSrtContent(subs) ==
    [index \in 1..Len(subs) |->
        [sequence  |-> index,
         startTime |-> formatSrtTime[subs[index].startTime],
         endTime   |-> formatSrtTime[subs[index].endTime],
         text      |-> subs[index].text]]

\* Narration texts of the request: none, two weighted fragments, one mark.
AudioTexts == { <<>>, << "a", "UFF0C", "a" >>, << "U3002" >> }

\* What ffprobe reports for a downloaded file, in seconds.
AudioDurations == { Num(1, 5), Num(1117, 1000) }

\* The request bodies: audioUrls is the number of its urls; durations has
\* one entry for the intro and one for each audio url.
MergeBodies ==
    UNION { { [bgUrl |-> bg, introUrl |-> intro, audioUrls |-> n, hasIntroTxt |-> has,
               introTxt |-> IF has THEN txt ELSE <<>>, audioTxts |-> txts,
               durations |-> ds] :
                 bg \in BOOLEAN, intro \in (IF n = 0 THEN BOOLEAN ELSE {TRUE}),
                 has \in BOOLEAN,
                 txt \in AudioTexts, txts \in SeqsUpTo(AudioTexts, MaxAudioUrls),
                 ds \in [1..(n + 1) -> AudioDurations] } :
            n \in 0..MaxAudioUrls }

NoMergeResponse == [status |-> 0, error |-> "", srtUrl |-> FALSE]

MergeResponse(status, error, srtUrl) == [status |-> status, error |-> error, srtUrl |-> srtUrl]

\* No /merge/audio request is running.
MergeIdle ==
    /\ mergeBody = [bgUrl |-> FALSE, introUrl |-> FALSE, audioUrls |-> 0,
                    hasIntroTxt |-> FALSE, introTxt |-> <<>>, audioTxts |-> <<>>,
                    durations |-> <<>>]
    /\ mergePc = "idle"
    /\ delaySeconds = 0
    /\ audioIndex = 1
    /\ srtTime = Zero
    /\ blocks = <<>>
    /\ srtSubtitles = <<>>
    /\ srtContent = <<>>
    /\ mergeResponse = NoMergeResponse

MergeInit ==
    /\ mergeBody \in MergeBodies
    /\ mergePc = "validate"
    /\ delaySeconds = 0
    /\ audioIndex = 1
    /\ srtTime = Zero
    /\ blocks = <<>>
    /\ srtSubtitles = <<>>
    /\ srtContent = <<>>
    /\ mergeResponse = NoMergeResponse

\* introTxt !== undefined || audioTxts.length > 0
hasSubtitles == mergeBody.hasIntroTxt \/ Len(mergeBody.audioTxts) > 0

\* The text of the downloaded file k: introTxt, then audioTxts[k - 2] (0-based).
BlockText(k) == IF k = 1 THEN mergeBody.introTxt ELSE mergeBody.audioTxts[k - 1]

\* The body passes the validation of the handler.
ValidMergeBody ==
    /\ mergeBody.introUrl
    /\ mergeBody.audioUrls > 0
    /\ hasSubtitles => /\ mergeBody.hasIntroTxt
                       /\ Len(mergeBody.audioTxts) = mergeBody.audioUrls

\* Validation of the body: 400 invalid_request or on to the downloads.
MergeValidate ==
    /\ mergePc = "validate"
    /\ IF ValidMergeBody
       THEN mergePc' = "mix" /\ UNCHANGED mergeResponse
       ELSE /\ mergePc' = "done"
            /\ mergeResponse' = MergeResponse(400, "invalid_request", FALSE)
    /\ UNCHANGED <<mergeBody, delaySeconds, audioIndex, srtTime, blocks, srtSubtitles,
                   srtContent>>
    /\ UNCHANGED <<allocVars, subVars, callVars, synthVars, loginVars>>

\* Downloads, concat and the delayed mix (or the silence prefix); a failing
\* download or ffmpeg run is answered with 500.
MergeMix ==
    /\ mergePc = "mix"
    /\ \E ok \in BOOLEAN :
          IF ok
          THEN /\ delaySeconds' = IF mergeBody.bgUrl THEN DELAY_SECONDS_MIX
                                  ELSE DELAY_SECONDS_SILENCE
               /\ mergePc' = IF hasSubtitles THEN "srt" ELSE "respond"
               /\ UNCHANGED mergeResponse
          ELSE /\ mergePc' = "done"
               /\ mergeResponse' = MergeResponse(500, "merge_failed", FALSE)
               /\ UNCHANGED delaySeconds
    /\ UNCHANGED <<mergeBody, audioIndex, srtTime, blocks, srtSubtitles, srtContent>>
    /\ UNCHANGED <<allocVars, subVars, callVars, synthVars, loginVars>>

\* The durations are probed; a failing probe abandons the SRT only.
MergeProbe ==
    /\ mergePc = "srt"
    /\ \E ok \in BOOLEAN :
          IF ok
          THEN /\ srtTime' = FromInt[SUBTITLE_START_OFFSET]
               /\ mergePc' = "block"
          ELSE /\ mergePc' = "respond"
               /\ UNCHANGED srtTime
    /\ audioIndex' = 1
    /\ UNCHANGED <<mergeBody, delaySeconds, blocks, srtSubtitles, srtContent,
                   mergeResponse>>
    /\ UNCHANGED <<allocVars, subVars, callVars, synthVars, loginVars>>

\* The block of a file with text: the text is split and
\* calculateSubtitleTimings is called on its fragments.
MergeCallTimings ==
    /\ mergePc = "block"
    /\ audioIndex <= Len(mergeBody.durations)
    /\ Len(Trim[BlockText(audioIndex)]) > 0
    /\ Len(splitTextByPunctuation[Trim[BlockText(audioIndex)]]) > 0
    /\ segments' = splitTextByPunctuation[Trim[BlockText(audioIndex)]]
    /\ totalDuration' = mergeBody.durations[audioIndex]
    /\ startTime' = srtTime
    /\ subPc' = "start"
    /\ subI' = 1
    /\ idealDurations' = <<>>
    /\ scaleFactor' = Zero
    /\ subtitles' = <<>>
    /\ currentTime' = Zero
    /\ remainingTime' = Zero
    /\ mergePc' = "timing"
    /\ UNCHANGED <<mergeBody, delaySeconds, audioIndex, srtTime, blocks, srtSubtitles,
                   srtContent, mergeResponse>>
    /\ UNCHANGED <<allocVars, callVars, synthVars, loginVars>>

\* The call returned: subtitles.push(...), currentTime += duration.
MergePushBlock ==
    /\ mergePc = "timing"
    /\ subPc = "returned"
    /\ blocks' = Append(blocks, subtitles)
    /\ srtSubtitles' = srtSubtitles \o subtitles
    /\ srtTime' = FAdd[srtTime, mergeBody.durations[audioIndex]]
    /\ audioIndex' = audioIndex + 1
    /\ mergePc' = "block"
    /\ UNCHANGED <<mergeBody, delaySeconds, srtContent, mergeResponse>>
    /\ UNCHANGED <<allocVars, subVars, callVars, synthVars, loginVars>>

\* The block of a file without text: only currentTime += duration.
MergeSkipBlock ==
    /\ mergePc = "block"
    /\ audioIndex <= Len(mergeBody.durations)
    /\ \/ Len(Trim[BlockText(audioIndex)]) = 0
       \/ Len(splitTextByPunctuation[Trim[BlockText(audioIndex)]]) = 0
    /\ blocks' = Append(blocks, <<>>)
    /\ srtTime' = FAdd[srtTime, mergeBody.durations[audioIndex]]
    /\ audioIndex' = audioIndex + 1
    /\ UNCHANGED <<mergeBody, mergePc, delaySeconds, srtSubtitles, srtContent,
                   mergeResponse>>
    /\ UNCHANGED <<allocVars, subVars, callVars, synthVars, loginVars>>

\* const srtContent = generateSrtContent(subtitles), written to the .srt file.
MergeGenerateSrt ==
    /\ mergePc = "block"
    /\ audioIndex > Len(mergeBody.durations)
    /\ srtContent' = generateSrtContent(srtSubtitles)
    /\ mergePc' = "respond"
    /\ UNCHANGED <<mergeBody, delaySeconds, audioIndex, srtTime, blocks, srtSubtitles,
                   mergeResponse>>
    /\ UNCHANGED <<allocVars, subVars, callVars, synthVars, loginVars>>

\* res.json(response), with srtUrl when the SRT file was written (the loop
\* over the blocks ran to its end).
MergeRespond ==
    /\ mergePc = "respond"
    /\ mergeResponse' = MergeResponse(200, "", audioIndex > Len(mergeBody.durations))
    /\ mergePc' = "done"
    /\ UNCHANGED <<mergeBody, delaySeconds, audioIndex, srtTime, blocks, srtSubtitles,
                   srtContent>>
    /\ UNCHANGED <<allocVars, subVars, callVars, synthVars, loginVars>>

MergeNext ==
    \/ MergeValidate
    \/ MergeMix
    \/ MergeProbe
    \/ MergeCallTimings
    \/ ReturnEvenSplit
    \/ ComputeIdeals
    \/ AssignSegment
    \/ FixLastEndTime
    \/ MergePushBlock
    \/ MergeSkipBlock
    \/ MergeGenerateSrt
    \/ MergeRespond

vars == <<allocVars, subVars, callVars, synthVars, loginVars, mergeVars>>

\* Only one request is served.
CallIdle ==
    /\ phase = 0
    /\ call = "A"
    /\ other = <<>>
    /\ solo = <<>>
    /\ overlapped = FALSE

\* No calculateSubtitleTimings call is running.
SubIdle ==
    /\ segments = <<>>
    /\ totalDuration = Zero
    /\ startTime = Zero
    /\ subPc = "idle"
    /\ subI = 1
    /\ idealDurations = <<>>
    /\ scaleFactor = Zero
    /\ subtitles = <<>>
    /\ currentTime = Zero
    /\ remainingTime = Zero

\* No /generate/video-9-16 request is running.
AllocIdle ==
    /\ body = [targetDuration |-> 0, videoUrls |-> <<>>, imageUrls |-> <<>>,
               appendVideoUrls |-> <<>>]
    /\ pc = "idle"
    /\ i = 1
    /\ videoUrls = <<>>
    /\ imageUrls = <<>>
    /\ appendVideoUrls = <<>>
    /\ downloadedVideoFiles = <<>>
    /\ processedVideos = <<>>
    /\ totalVideoDuration = 0
    /\ processedVideoFiles = <<>>
    /\ remainingDuration = 0
    /\ downloadedImageFiles = <<>>
    /\ validImages = <<>>
    /\ imageVideoFiles = <<>>
    /\ accumulatedDuration = 0
    /\ remainingAfterImages = 0
    /\ downloadedAppendVideoFiles = <<>>
    /\ appendProcessedVideos = <<>>
    /\ appendAccumulatedDuration = 0
    /\ outputFile = <<>>
    /\ actualDuration = 0
    /\ response = NoResponse

\* One request to /generate/video-9-16.
Init == AllocInit /\ SubIdle /\ CallIdle /\ SynthIdle /\ LoginIdle /\ MergeIdle

Next == AllocNext

Spec == Init /\ [][Next]_vars

\* One call of calculateSubtitleTimings.
InitSub == SubInit /\ AllocIdle /\ CallIdle /\ SynthIdle /\ LoginIdle /\ MergeIdle

SpecSub == InitSub /\ [][SubNext]_vars

\* Request A alone, request B alone, then A and B again, interleaved.
InitTwo ==
    /\ body \in ConcurrentBodies
    /\ pc = "validate"
    /\ i = 1
    /\ videoUrls = <<>>
    /\ imageUrls = <<>>
    /\ appendVideoUrls = <<>>
    /\ downloadedVideoFiles = <<>>
    /\ processedVideos = <<>>
    /\ totalVideoDuration = 0
    /\ processedVideoFiles = <<>>
    /\ remainingDuration = 0
    /\ downloadedImageFiles = <<>>
    /\ validImages = <<>>
    /\ imageVideoFiles = <<>>
    /\ accumulatedDuration = 0
    /\ remainingAfterImages = 0
    /\ downloadedAppendVideoFiles = <<>>
    /\ appendProcessedVideos = <<>>
    /\ appendAccumulatedDuration = 0
    /\ outputFile = <<>>
    /\ actualDuration = 0
    /\ response = NoResponse
    /\ \E b \in ConcurrentBodies : other = Fresh(b)
    /\ phase = 1
    /\ call = "A"
    /\ solo = [c \in {"A", "B"} |-> NoResult]
    /\ overlapped = FALSE
    /\ SubIdle
    /\ SynthIdle
    /\ LoginIdle
    /\ MergeIdle

SpecTwo == InitTwo /\ [][TwoNext]_vars

\* One subtitle synthesis: the text is split, then its fragments are timed.
InitSynth == SynthInit /\ AllocIdle /\ CallIdle /\ LoginIdle /\ MergeIdle

SpecSynth == InitSynth /\ [][SynthNext]_vars

\* Calls of LoginValidator.validate, one after the other.
InitLogin == LoginInit /\ AllocIdle /\ SubIdle /\ CallIdle /\ SynthIdle /\ MergeIdle

SpecLogin == InitLogin /\ [][LoginNext]_vars

\* One request to /merge/audio.
InitMerge == MergeInit /\ AllocIdle /\ SubIdle /\ CallIdle /\ SynthIdle /\ LoginIdle

SpecMerge == InitMerge /\ [][MergeNext]_vars

\* ------------------------------------------------------------------------
\* Properties of /generate/video-9-16 (checked under Spec)
\* ------------------------------------------------------------------------
\* A source is usable when it is fetched and probed with a positive duration
\* (and, for an image, passes the dimension filter); its candidate duration is
\* the duration it would get with unlimited time left.
UsableVideo(source) == source.url /\ source.fetch /\ source.probe /\ source.duration > 0

UsableImage(source) == source.url /\ source.fetch /\ source.probe /\ ImageValid(source)

RECURSIVE VideoCandidates(_, _, _)
VideoCandidates(pool, urls, k) ==
    IF k > Len(urls) THEN <<>>
    ELSE (IF UsableVideo(urls[k])
          THEN << Segment(pool, k, urls[k].duration) >> ELSE <<>>)
         \o VideoCandidates(pool, urls, k + 1)

RECURSIVE ImageCandidates(_, _)
ImageCandidates(urls, k) ==
    IF k > Len(urls) THEN <<>>
    ELSE (IF UsableImage(urls[k])
          THEN << Segment("image", k, ImageCandidateDuration(urls[k])) >> ELSE <<>>)
         \o ImageCandidates(urls, k + 1)

\* Every usable source of the request with its candidate duration, clips first,
\* then images, then append videos, each pool in input order.
AllCandidates ==
    VideoCandidates("clip", body.videoUrls, 1)
    \o ImageCandidates(body.imageUrls, 1)
    \o VideoCandidates("filler", body.appendVideoUrls, 1)

CandidateOf(seg) ==
    IF seg.pool = "clip" THEN body.videoUrls[seg.src].duration
    ELSE IF seg.pool = "image" THEN ImageCandidateDuration(body.imageUrls[seg.src])
    ELSE body.appendVideoUrls[seg.src].duration

PoolRank(pool) == IF pool = "clip" THEN 1 ELSE IF pool = "image" THEN 2 ELSE 3

Succeeded == pc = "done" /\ response.status = 200

Pools(file) == { file[k].pool : k \in 1..Len(file) }

\* The segments of a file that play for some time.
RECURSIVE Positive(_)
Positive(file) ==
    IF file = <<>> THEN <<>>
    ELSE (IF Head(file).duration > 0 THEN << Head(file) >> ELSE <<>>) \o Positive(Tail(file))

\* C1: the summed duration of the segments of a returned timeline never
\* exceeds targetDuration.
C1_NoOvershoot ==
    Succeeded => /\ SumDurations(outputFile) <= body.targetDuration
                 /\ actualDuration <= body.targetDuration

\* C1 witness: a request succeeded whose concatenation list was longer than
\* the target, so the final cut acted.
C1_Witness ==
    /\ Succeeded
    /\ SumFileDurations(processedVideoFiles) > body.targetDuration
    /\ SumDurations(outputFile) = body.targetDuration

\* C2: if the candidate durations of all usable sources sum to at least
\* targetDuration, the returned timeline lasts exactly targetDuration.
C2_ExactFill ==
    (Succeeded /\ SumDurations(AllCandidates) >= body.targetDuration)
        => /\ actualDuration = body.targetDuration
           /\ SumDurations(outputFile) = body.targetDuration

\* C2 witness: target 10 s with one clip of 12 s returns one segment of 10 s.
C2_Witness ==
    /\ Succeeded
    /\ body.targetDuration = 10000
    /\ body.videoUrls = << VideoSource(TRUE, TRUE, TRUE, 12000) >>
    /\ outputFile = << Segment("clip", 1, 10000) >>
    /\ actualDuration = 10000

\* C6: the timeline is ordered by pool priority (clips, images, append videos)
\* and, inside a pool, by the position of the source in the request.
Ordered(file) ==
    \A j, k \in 1..Len(file) :
        j < k => \/ PoolRank(file[j].pool) < PoolRank(file[k].pool)
                 \/ (file[j].pool = file[k].pool /\ file[j].src < file[k].src)

C6_PoolOrder == Ordered(concat(processedVideoFiles)) /\ Ordered(outputFile)

\* C6 witness: a returned timeline with two clips, an image and an append video.
C6_Witness ==
    /\ Succeeded
    /\ Pools(outputFile) = {"clip", "image", "filler"}
    /\ \E j, k \in 1..Len(outputFile) :
          j < k /\ outputFile[j].pool = "clip" /\ outputFile[k].pool = "clip"

\* C7: a source whose fetch or probe fails is skipped; it never aborts the
\* request (the only exceptions of the model are failed fetches and probes).
C7_BadSourceNeverAborts == response.status # 500

\* C8: when the request has no usable source the answer is a no-sources
\* error, and a successful answer never has an empty timeline.
C8_NoSourcesError ==
    /\ (pc = "done" /\ AllCandidates = <<>>)
          => /\ response.status = 400
             /\ response.error \in {"invalid_request", "no_video_generated"}
    /\ Succeeded => Positive(outputFile) # <<>>

OnlyLastShortened(file) ==
    /\ \A k \in 1..(Len(file) - 1) : file[k].duration = CandidateOf(file[k])
    /\ \A k \in 1..Len(file) : file[k].duration <= CandidateOf(file[k])

C10_OnlyLastTrimmed ==
    OnlyLastShortened(concat(processedVideoFiles)) /\ OnlyLastShortened(outputFile)

\* C10 witness: a returned timeline of several segments whose last one was cut.
C10_Witness ==
    /\ Succeeded
    /\ Len(outputFile) >= 2
    /\ outputFile[Len(outputFile)].duration < CandidateOf(outputFile[Len(outputFile)])

\* C11: every segment of the timeline has a strictly positive duration.
C11_PositiveDurations ==
    /\ \A k \in 1..Len(outputFile) : outputFile[k].duration > 0
    /\ \A k \in 1..Len(concat(processedVideoFiles)) :
          concat(processedVideoFiles)[k].duration > 0

\* The playing time of the clip segments of a list of files.
IsClip(seg) == seg.pool = "clip"

ClipTime(files) == SumDurations(SelectSeq(concat(files), IsClip))

\* The time left when the k-th image segment is emitted: the target minus the
\* clips and the image segments emitted before it.
RemainingBefore(k) ==
    body.targetDuration - ClipTime(processedVideoFiles)
        - SumFileDurations(SubSeq(imageVideoFiles, 1, k - 1))

Min(a, b) == IF a < b THEN a ELSE b

\* C17: every image segment the image pool emits lasts min(candidateDuration,
\* remaining); it is never longer than the time left (no stretching) and never
\* emitted with a duration <= 0.
C17_ImageClamp ==
    \A k \in 1..Len(imageVideoFiles) :
        /\ imageVideoFiles[k][1].duration
              = Min(CandidateOf(imageVideoFiles[k][1]), RemainingBefore(k))
        /\ imageVideoFiles[k][1].duration > 0

\* The image, scaled to the frame width, has a dimension below the minimum.
ScaledBelowMinimum(image) ==
    VIDEO_WIDTH < MinImageSize \/ ScaledHeight(image) < MinImageSize

\* C18: an image whose scaled dimensions are below the minimum never produces
\* a segment, and every other image that was fetched and probed is kept as a
\* candidate once the filter has run.
C18_ScaledMinimum ==
    /\ \A k \in 1..Len(imageVideoFiles) :
          ~ScaledBelowMinimum(body.imageUrls[imageVideoFiles[k][1].src])
    /\ pc \in {"renderImages", "step3"}
          => \A j \in 1..Len(downloadedImageFiles) :
                (/\ body.imageUrls[downloadedImageFiles[j]].probe
                 /\ ~ScaledBelowMinimum(body.imageUrls[downloadedImageFiles[j]]))
                   => \E v \in 1..Len(validImages) :
                         validImages[v].path = downloadedImageFiles[j]

\* round(height * 1080 / width): the nearest integer, halves upwards.
RoundedScaledHeight(image) ==
    LET q == (image.height * 1080) \div image.width
    IN  CHOOSE n \in {q, q + 1} :
           /\ 2 * n * image.width - image.width <= 2 * image.height * 1080
           /\ 2 * image.height * 1080 < 2 * n * image.width + image.width

\* The candidate duration the claim gives, in milliseconds: max(3, (scaledHeight
\* - 1920) / 100) seconds when scaledHeight exceeds 1920, else 5 seconds.
StatedCandidate(image) ==
    IF RoundedScaledHeight(image) > 1920
    THEN (IF (RoundedScaledHeight(image) - 1920) * 10 > 3000
          THEN (RoundedScaledHeight(image) - 1920) * 10 ELSE 3000)
    ELSE 5000

\* The request of the example: target 10 s, clips of 4 s and 3 s, one image of
\* 1000 x 2000.
Example2 ==
    /\ body.targetDuration = 10000
    /\ body.videoUrls = << VideoSource(TRUE, TRUE, TRUE, 4000),
                           VideoSource(TRUE, TRUE, TRUE, 3000) >>
    /\ body.imageUrls = << ImageSource(TRUE, TRUE, TRUE, 1000, 2000) >>
    /\ body.appendVideoUrls = <<>>

\* C19: an image segment that fits in the time left lasts the stated candidate
\* duration of its image, and is never longer; the example returns 7 s of clips
\* and a scrolling segment of 3 s, 10 s in total.
C19_CandidateDuration ==
    /\ \A k \in 1..Len(imageVideoFiles) :
          LET seg == imageVideoFiles[k][1]
              candidate == StatedCandidate(body.imageUrls[seg.src])
          IN  /\ candidate <= RemainingBefore(k) => seg.duration = candidate
              /\ seg.duration <= candidate
    /\ (Example2 /\ pc = "done")
          => /\ Succeeded
             /\ outputFile = << Segment("clip", 1, 4000), Segment("clip", 2, 3000),
                                Segment("image", 1, 3000) >>
             /\ actualDuration = 10000

\* C19 witness: the example has returned, and its scrolling segment is there
\* at its full candidate duration.
C19_Witness ==
    /\ Example2
    /\ Succeeded
    /\ imageVideoFiles = << << Segment("image", 1, 3000) >> >>
    /\ StatedCandidate(body.imageUrls[1]) = 3000

\* Every segment of the file starts while some of the target is left: the
\* segments before it last less than targetDuration together.
StopsEarly(file) ==
    \A k \in 1..Len(file) : SumDurations(SubSeq(file, 1, k - 1)) < body.targetDuration

\* C20: a pool stops as soon as the remaining duration is <= 0. No clip is
\* processed after the clips have reached the target, and no segment of any
\* pool is in the timeline unless the segments before it leave some of the
\* target; so the image pool and the append pool add nothing when nothing is
\* left at their turn.
C20_EarlyStop ==
    /\ \A k \in 1..Len(processedVideos) :
          SumFileDurations([j \in 1..(k - 1) |-> processedVideos[j].path])
              < body.targetDuration
    /\ StopsEarly(concat(processedVideoFiles))
    /\ StopsEarly(outputFile)

\* C20 witness: the first clip covers the target, so the second clip, the
\* image and the append video, all usable, have contributed nothing.
C20_Witness ==
    /\ Succeeded
    /\ Len(body.videoUrls) = 2
    /\ UsableVideo(body.videoUrls[1]) /\ UsableVideo(body.videoUrls[2])
    /\ body.videoUrls[1].duration >= body.targetDuration
    /\ Len(body.imageUrls) = 1 /\ UsableImage(body.imageUrls[1])
    /\ Len(body.appendVideoUrls) = 1 /\ UsableVideo(body.appendVideoUrls[1])
    /\ Len(outputFile) = 1
    /\ outputFile[1].pool = "clip" /\ outputFile[1].src = 1

ListComplete == pc = "step4" \/ Succeeded

\* What the concatenation list lasts beyond the target.
Overshoot == SumFileDurations(processedVideoFiles) - body.targetDuration

\* The last image video was raised to the minimum: less than the minimum was
\* left when it was rendered.
LastImageRaised ==
    /\ Len(imageVideoFiles) > 0
    /\ RemainingBefore(Len(imageVideoFiles)) < MinImageVideoDuration
    /\ imageVideoFiles[Len(imageVideoFiles)][1].duration = MinImageVideoDuration
    /\ processedVideoFiles[Len(processedVideoFiles)] = imageVideoFiles[Len(imageVideoFiles)]

\* C30: before the final trim the concatenation list lasts less than 1 s more
\* than targetDuration, and more than targetDuration only when its last
\* segment is an image raised to the 1 s minimum; the clips alone never last
\* more than targetDuration, and a list that ends with an append video does not
\* either.
C30_OvershootBelowFloor ==
    /\ ClipTime(processedVideoFiles) <= body.targetDuration
    /\ ListComplete
          => /\ Overshoot < MinImageVideoDuration
             /\ Overshoot > 0 => LastImageRaised

\* C30 witness: the list is complete and lasts more than the target.
C30_Witness == pc = "step4" /\ Overshoot > 0 /\ LastImageRaised

\* ------------------------------------------------------------------------
\* Properties of calculateSubtitleTimings (checked under SpecSub)
\* ------------------------------------------------------------------------
Returned == subPc = "returned" /\ Len(subtitles) > 0

\* C3: in both branches the first fragment starts at the block start offset
\* and the last one ends at the block start offset plus the block duration.
C3_BlockSpan ==
    Returned => /\ FEq[subtitles[1].startTime, startTime]
                /\ FEq[subtitles[Len(subtitles)].endTime, FAdd[startTime, totalDuration]]

\* C4: every returned fragment satisfies 0 <= startTime < endTime.
C4_PositiveSpan ==
    Returned => \A k \in 1..Len(subtitles) :
                    /\ FLeq[Zero, subtitles[k].startTime]
                    /\ FLess[subtitles[k].startTime, subtitles[k].endTime]

\* C5: consecutive fragments of a block touch: each one ends where the next
\* one starts.
C5_Contiguous ==
    \A k \in 1..(Len(subtitles) - 1) :
        FEq[subtitles[k].endTime, subtitles[k + 1].startTime]

\* C5 witness: the weighted branch returned three fragments.
C5_Witness ==
    /\ Returned
    /\ Len(subtitles) >= 3
    /\ TotalChars(segments) > 0

\* endTime - startTime of a fragment.
Span(subtitle) == FSub[subtitle.endTime, subtitle.startTime]

\* C21: every fragment returned by the weighted branch lasts at least half a
\* second and at most one third of the block.
C21_FragmentBounds ==
    (Returned /\ TotalChars(segments) > 0)
        => \A k \in 1..Len(subtitles) :
                    /\ FLeq[Num(1, 2), Span(subtitles[k])]
                    /\ FLeq[Span(subtitles[k]), FDiv[totalDuration, Num(3, 1)]]

\* C22: once a non-last fragment has been assigned, at least 0.3 s remains for
\* each fragment still to come: the remaining time is at least 0.3 times the
\* number of fragments left.
C22_ReserveForRest ==
    (subPc = "assign" /\ Len(subtitles) >= 1)
        => FLeq[FMul[Num(3, 10), Num(Len(segments) - Len(subtitles), 1)], remainingTime]

\* Boundary number k of the even split of the block into n parts:
\* blockStartOffset + k * (blockDuration / n).
EvenBoundary(k, n) ==
    FAdd[startTime, FMul[Num(k, 1), FDiv[totalDuration, Num(n, 1)]]]

\* C25: when no segment has any weight, the block is split evenly: fragment i
\* (from 0) of n spans from boundary i to boundary i + 1.
C25_EvenSplit ==
    (Returned /\ TotalChars(segments) = 0)
        => /\ Len(subtitles) = Len(segments)
           /\ \A k \in 1..Len(subtitles) :
                 /\ subtitles[k].text = segments[k]
                 /\ subtitles[k].startTime = EvenBoundary(k - 1, Len(segments))
                 /\ subtitles[k].endTime = EvenBoundary(k, Len(segments))

\* C25 witness: three segments of punctuation only have been returned, in a
\* block that does not start at zero.
C25_Witness ==
    /\ Returned
    /\ TotalChars(segments) = 0
    /\ Len(subtitles) = 3
    /\ FLess[Zero, startTime]

\* ------------------------------------------------------------------------
\* Properties of the subtitle synthesis (checked under SpecSynth)
\* ------------------------------------------------------------------------
\* The synthesis of the example: the example text, a block of 6 s starting at 5 s.
Example3 ==
    /\ text = ExampleText
    /\ totalDuration = Num(6, 1)
    /\ startTime = Num(5, 1)
    /\ subPc = "returned"

\* C13 as stated: the example yields two fragments whose span is exactly
\* [5, 11].
C13_TwoFragments ==
    Example3 => /\ Len(subtitles) = 2
                /\ subtitles[1].startTime = Num(5, 1)
                /\ subtitles[Len(subtitles)].endTime = Num(11, 1)

\* C13 amended: the example yields three fragments, one for each mark (the
\* full stop, the comma, the full stop), whose span is exactly [5, 11].
C13_ThreeFragments ==
    Example3 => /\ Len(subtitles) = 3
                /\ subtitles[1].text = SubSeq(ExampleText, 1, 3)
                /\ subtitles[2].text = SubSeq(ExampleText, 4, 10)
                /\ subtitles[3].text = SubSeq(ExampleText, 11, 15)
                /\ subtitles[1].startTime = Num(5, 1)
                /\ subtitles[3].endTime = Num(11, 1)

\* C13 witness: the synthesis of the example has returned its fragments.
C13_Witness == Example3 /\ Len(subtitles) > 0

\* The text is empty or holds white space only.
Blank(s) == Trim[s] = <<>>

\* C14: an empty or blank text yields no segment and no fragment, through the
\* early return that precedes every division; and no segment and no returned
\* fragment of any text is empty or blank.
C14_NoBlankFragment ==
    /\ (Blank(text) /\ subPc # "split")
           => /\ segments = <<>>
              /\ subtitles = <<>>
              /\ subPc \in {"start", "returned"}
    /\ subPc # "split" => \A k \in 1..Len(segments) : ~Blank(segments[k])
    /\ \A k \in 1..Len(subtitles) : ~Blank(subtitles[k].text)

\* C14 witness: a blank text that is not empty has returned no fragment, or a
\* text whose forced split leaves a blank chunk has returned its fragment.
C14_Witness ==
    /\ subPc = "returned"
    /\ \/ text # <<>> /\ Blank(text) /\ subtitles = <<>>
       \/ text = LongText /\ Len(subtitles) = 1

\* C23: no fragment returned by splitTextByPunctuation is longer than the cap
\* of 50 characters.
C23_LengthCap ==
    subPc # "split" => \A k \in 1..Len(segments) : Len(segments[k]) <= MaxSegmentChars

\* The marks that end a fragment (the newline, which trimming removes, aside).
TerminalMarks == Punctuation \ {"\n"}

MarkPositions(seg) == { k \in 1..Len(seg) : seg[k] \in TerminalMarks }

\* C24: every returned fragment holds at most one terminal mark, and a mark
\* it holds is its last character.
C24_MarkIsTail ==
    subPc # "split"
        => \A k \in 1..Len(segments) :
              /\ Cardinality(MarkPositions(segments[k])) <= 1
              /\ MarkPositions(segments[k]) \subseteq {Len(segments[k])}

\* C24 witness: the example text has been split into its three fragments, each
\* closed by its mark.
C24_Witness ==
    /\ text = ExampleText
    /\ subPc = "start"
    /\ Len(segments) = 3
    /\ \A k \in 1..3 : MarkPositions(segments[k]) = {Len(segments[k])}

\* ------------------------------------------------------------------------
\* Properties of LoginValidator (checked under SpecLogin)
\* ------------------------------------------------------------------------
\* C16: a call with an empty cookies array and no cookieFilePath, for a
\* platform whose cookies an earlier successful call has saved, loads those
\* saved cookies and does not fail with no_cookies_available.
C16_LoadsSavedCookies ==
    (/\ validator.platform \in Platforms
     /\ validator.cookies = <<>>
     /\ validator.cookieFilePath = Null
     /\ validator.savedBefore # Null)
        => /\ loginResult.error # "no_cookies_available"
           /\ validator.loadedFromFile
           /\ validator.cookiesToUse = validator.savedBefore

\* fragments.join('')
Join[segs \in Seq(String)] == IF segs = <<>> THEN <<>> ELSE Head(segs) \o Join[Tail(segs)]

\* C29: for a text without whitespace or newline, the fragments of
\* splitTextByPunctuation, concatenated in order, are the text: no character
\* is lost, duplicated or moved.
C29_RoundTrip ==
    (subPc # "split" /\ \A k \in 1..Len(text) : text[k] \notin Whitespace)
        => Join[segments] = text

\* A text with a forced split and a mark was split into three fragments.
C29_Witness ==
    /\ text = SplitRunText
    /\ subPc = "start"
    /\ Len(segments) = 3
    /\ Len(segments[1]) = MaxSegmentChars
    /\ Join[segments] = text

\* ------------------------------------------------------------------------
\* Properties of POST /merge/audio
\* ------------------------------------------------------------------------
\* The digit a character denotes.
DigitValue(c) == CHOOSE d \in 0..9 : Digits[d + 1] = c

\* The natural number a string of digits denotes.
ParseNat[str \in String] ==
    IF str = <<>> THEN 0
    ELSE 10 * ParseNat[SubSeq(str, 1, Len(str) - 1)] + DigitValue(str[Len(str)])

\* The fields of a time written as H..H:MM:SS,mmm, read from its end.
ParseSrtTime(str) ==
    [hours        |-> ParseNat[SubSeq(str, 1, Len(str) - 10)],
     minutes      |-> ParseNat[SubSeq(str, Len(str) - 8, Len(str) - 7)],
     secs         |-> ParseNat[SubSeq(str, Len(str) - 5, Len(str) - 4)],
     milliseconds |-> ParseNat[SubSeq(str, Len(str) - 2, Len(str))]]

\* str is digits, at least two for the hours, with ':' ':' ',' in their places.
WellFormedSrtTime(str) ==
    /\ Len(str) >= 12
    /\ str[Len(str) - 9] = ":"
    /\ str[Len(str) - 6] = ":"
    /\ str[Len(str) - 3] = ","
    /\ \A k \in 1..Len(str) :
          k \notin {Len(str) - 9, Len(str) - 6, Len(str) - 3}
              => \E d \in 1..10 : Digits[d] = str[k]
    /\ ParseSrtTime(str).minutes < 60
    /\ ParseSrtTime(str).secs < 60

\* The milliseconds a written time denotes.
SrtMillis(str) ==
    ((ParseSrtTime(str).hours * 60 + ParseSrtTime(str).minutes) * 60
        + ParseSrtTime(str).secs) * 1000 + ParseSrtTime(str).milliseconds

\* Math.floor(s * 1000) as JavaScript evaluates it, s >= 0.
FloatMillis[s \in Double] == Floor[FMul[s, Num(1000, 1)]]

\* The floor of the real number s * 1000, s >= 0: the written time t with
\* t <= s < t + 1 ms.
ExactMillis[s \in Double] ==
    IF s.e >= 0 THEN BToInt[BShl[BMulSmall[s.m, 1000], s.e]]
    ELSE BToInt[BShr[BMulSmall[s.m, 1000], -s.e]]

\* The times of the subtitles with the way the SRT file writes them.
WrittenTimes ==
    { << srtSubtitles[k].startTime, srtContent[k].startTime >> : k \in 1..Len(srtContent) }
        \cup { << srtSubtitles[k].endTime, srtContent[k].endTime >> : k \in 1..Len(srtContent) }

\* C26: formatSrtTime(s) is HH:MM:SS,mmm with MM < 60, SS < 60, mmm < 1000 and
\* denotes floor(s * 1000) milliseconds, the floor being taken either as
\* JavaScript evaluates Math.floor(s * 1000) for every time of the file, or as
\* the floor of the real number for every time of the file (the time written
\* never exceeds s and is less than 1 ms below it).
C26_TruncatedMillis ==
    /\ \A w \in WrittenTimes : WellFormedSrtTime(w[2])
    /\ \/ \A w \in WrittenTimes : SrtMillis(w[2]) = FloatMillis[w[1]]
       \/ \A w \in WrittenTimes : SrtMillis(w[2]) = ExactMillis[w[1]]

\* The request was answered with the audio and an SRT file.
MergedWithSrt == mergePc = "done" /\ mergeResponse.status = 200 /\ mergeResponse.srtUrl

\* C27: in the answer of POST /merge/audio the first subtitle block starts at
\* the delay after which the narration starts in the produced audio, with a
\* bgUrl and without one.
C27_SubtitlesFollowNarration ==
    (MergedWithSrt /\ blocks[1] # <<>>)
        => blocks[1][1].startTime = FromInt[delaySeconds]

\* The start offset plus the durations of the files before file k, summed in
\* the order of the files.
BlockStart[k \in Nat] ==
    IF k <= 1 THEN FromInt[SUBTITLE_START_OFFSET]
    ELSE FAdd[BlockStart[k - 1], mergeBody.durations[k - 1]]

\* The blocks with subtitles before block k.
EarlierBlocks(k) == { j \in 1..(k - 1) : blocks[j] # <<>> }

\* Every block with subtitles starts at the offset plus the earlier durations.
BlocksStartOnTime ==
    \A k \in 1..Len(blocks) : blocks[k] # <<>> => blocks[k][1].startTime = BlockStart[k]

\* The start times of the track never decrease.
StartsNeverDecrease ==
    \A k \in 1..(Len(srtSubtitles) - 1) :
        FLeq[srtSubtitles[k].startTime, srtSubtitles[k + 1].startTime]

\* No fragment starts before the end of the block before its own.
BlocksNeverOverlap ==
    \A k \in 1..Len(blocks) : \A j \in EarlierBlocks(k) : \A f \in 1..Len(blocks[k]) :
        FLeq[blocks[j][Len(blocks[j])].endTime, blocks[k][f].startTime]

\* C28: the subtitle block of the k-th file starts at the start offset plus
\* the summed durations of the earlier files, with or without text; the
\* fragment start times never decrease over the track and no fragment of a
\* later block starts before the end of the block before it.
C28_BlocksInSequence ==
    MergedWithSrt => BlocksStartOnTime /\ StartsNeverDecrease /\ BlocksNeverOverlap
====
